---- MODULE Spec2Model ----
(***************************************************************************)
(* QView3D serial protocol engines.                                        *)
(*                                                                         *)
(* Two engines of the repository are modelled:                             *)
(*   - the job-driven Printer class (startPrint / pausePrint /             *)
(*     continuePrint / #portListener), variables state .. perr;            *)
(*   - the queue-based engine (sendGCodeCommand, onOutputMatch and the     *)
(*     serial communication loop), added below.                            *)
(*                                                                         *)
(* Text is a sequence of one-character strings; NL is the line terminator. *)
(***************************************************************************)
EXTENDS Integers, Sequences, FiniteSets, TLC

-----------------------------------------------------------------------------
(* Bounds of the model *)

\* number of commands of the non-empty job
JobLen == 3
\* number of continuePrint calls explored
MaxResume == 1
\* number of SerialPort handles setSerialPort may create
MaxPorts == 2
\* number of lines an arbitrary peer emits
MaxStray == 3
\* number of SentGCodeCommand objects created (the hello probe included)
MaxCmds == 3
\* number of Extractor objects created
MaxExt == 1
\* longest outputBuffer of the communication loop
MaxBuf == 5
\* callback invocations counted per handle (the count saturates here)
MaxCalls == 2
\* the getPrinterAtSerialPort calls in progress at once and the paths they name
MaxCallers == 3
MaxPaths == 2
\* the most commands one Job hands out when its owner drives it
MaxReturned == 7
\* the callbacks registered with onStateChange
MaxListeners == 1

-----------------------------------------------------------------------------
(* Text helpers *)

NL == "\n"

\* the texts the peer prints: an acknowledgement line, the echo of an M118 E1
\* and a line that is neither
OkText == <<"o", "k", NL>>
EchoText == <<"e", NL>>
NoiseText == <<"x", NL>>

RECURSIVE SplitFrom(_, _, _)
SplitFrom(s, i, cur) ==
    IF i > Len(s) THEN <<cur>>
    ELSE IF s[i] = NL THEN <<cur>> \o SplitFrom(s, i + 1, <<>>)
    ELSE SplitFrom(s, i + 1, Append(cur, s[i]))

\* String.prototype.split('\n'): the pieces between terminators, the last one
\* being the unterminated tail (possibly empty)
Split(s) == SplitFrom(s, 1, <<>>)

\* currentLine.startsWith('ok') && currentLine.length === 2
IsOk(line) == Len(line) = 2 /\ line[1] = "o" /\ line[2] = "k"

-----------------------------------------------------------------------------
(* Job (server-javascript/src/printer/job.js) *)

Jobs == 1 .. 2

\* the G-code script a Job was constructed with: job 1 holds JobLen commands,
\* job 2 holds none
GCodes == <<"g1", "g2", "g3", "g4">>
gcodeScript(j) == IF j = 1 THEN SubSeq(GCodes, 1, JobLen) ELSE <<>>

VARIABLES
    state,              \* Printer.#state
    dataBuffer,         \* Printer.#dataBuffer
    currentJob,         \* Printer.#currentJob (0: undefined)
    serialPort,         \* Printer.#serialPort (0: undefined, else a handle)
    gcodeScriptIndex,   \* Job.#gcodeScriptIndex of every Job
    portStatus,         \* every SerialPort handle: new/opening/open/closing/closed
    wire,               \* lines written to the current transport, in order
    ctrlIdx,            \* lines of wire the controller has taken up
    ctrlEchoed,         \* the controller printed the echo of an M118, not yet its ok
    rx,                 \* controller output not yet delivered in a 'data' event
    noiseCount,         \* lines the arbitrary peer has printed so far
    resumeCount,        \* continuePrint calls so far
    perr,               \* outcome of the last API call
    jobWritten,         \* per Job, the commands of it written so far (history)
    stream,             \* the bytes the 'data' events delivered so far (history)
    linesSeen,          \* the lines the listener's loop went over so far (history)
    acksSince,          \* ok lines handled while Printing since startPrint (history)
    writtenSince,       \* job commands written since startPrint (history)
    batchAcks,          \* ok lines handled while Printing in the last batch (history)
    batchWrites,        \* job commands the last batch wrote (history)
    jobModule,          \* the file the Job class of server-javascript/src/printer.js
                        \* is loaded from
    listeners,          \* the callbacks registered with onStateChange
    notified            \* per callback, the states it was called with, in order

jobVars == <<currentJob, gcodeScriptIndex, jobWritten>>
portVars == <<serialPort, portStatus>>
ctrlVars == <<ctrlIdx, ctrlEchoed, noiseCount>>
countVars == <<acksSince, writtenSince, batchAcks, batchWrites>>
feedVars == <<stream, linesSeen, countVars, jobModule>>
obsVars == <<listeners, notified>>

pvars == <<state, dataBuffer, jobVars, portVars, wire, rx, ctrlVars,
           resumeCount, perr, feedVars, obsVars>>

VARIABLES
    printerState,       \* printer.state of the queue-based engine
    sendQueue,          \* printer.sendQueue: ids of SentGCodeCommand objects
    extractorStack,     \* printer.extractorStack: ids of Extractor objects
    commands,           \* every SentGCodeCommand created, by id
    extractors,         \* every Extractor created, by id
    outputBuffer,       \* serialPortListener: outputBuffer
    previousCommand,    \* serialPortListener: previousCommand (0: null)
    nextGCodeCommand,   \* the command whose write is awaited (0: none)
    listenerPc,         \* serialPortListener: "read" or "write" (the await it is at)
    registered,         \* connectedSerialPrinters holds the printer
    written,            \* ids written to the transport, in order (0: sendHello)
    outstanding,        \* ids written and not yet acknowledged, oldest first (history)
    ackSeen,            \* ids whose acknowledgement arrived in time and was processed
    ackArrived,         \* ids whose acknowledgement arrived in time, not yet processed
    inputSeen,          \* some controller output has been read
    qerr                \* outcome of the last sendGCodeCommand/onOutputMatch call

qvars == <<printerState, sendQueue, extractorStack, commands, extractors,
           outputBuffer, previousCommand, nextGCodeCommand, listenerPc,
           registered, written, outstanding, ackSeen, ackArrived,
                   inputSeen, qerr>>

VARIABLES
    connectedSerialPrinters,  \* the map of that name: per path a printer (0: no entry)
    callPc,             \* per getPrinterAtSerialPort call: the await it is at
    callPort,           \* per call: its port argument (0: not called yet)
    callPrinter,        \* per call: the Printer it constructed or returns (0: none)
    printersMade,       \* per path: Printer objects constructed so far (history)
    handlesOpened       \* per path: binding.open calls that succeeded (history)

mapVars == <<connectedSerialPrinters, callPc, callPort, callPrinter,
             printersMade, handlesOpened>>

VARIABLES
    knownPc,            \* per getKnownPrinters call: where it is
    knownPorts,         \* per call: serialPorts, the awaited device list
    knownReturned,      \* per call: what it settled with
    knownStamp          \* per call: its place in the order of settling (history)

knownVars == <<knownPc, knownPorts, knownReturned, knownStamp>>

regVars == <<mapVars, knownVars>>

vars == <<pvars, qvars, regVars>>

\* a completion test that is one command early
isComplete_OneEarly(idx, j) == idx[j] + 1 >= Len(gcodeScript(j))

\* Job.isComplete
isComplete(idx, j) == idx[j] + 1 > Len(gcodeScript(j))

SERIAL_PRINT_COMMAND == "probe"

-----------------------------------------------------------------------------
(* Printer.#setState and onStateChange *)

\* the callbacks a caller may register
Callbacks == 1 .. MaxListeners

\* a #setState that assigns and tells nobody
setState_NoEmit(newState) ==
    /\ state' = newState
    /\ UNCHANGED obsVars

\* #setState(newState) with one of the PrinterState values: the assignment
\* and the emit of 'stateChange', which calls the registered callbacks
setState(newState) ==
    /\ state' = newState
    /\ notified' = [c \in Callbacks |->
                       IF c \in listeners THEN Append(notified[c], newState)
                       ELSE notified[c]]
    /\ UNCHANGED listeners

-----------------------------------------------------------------------------
(* Printer.#portListener *)

\* the for loop over the complete lines, state threaded through the iterations
\* acc = [st, idx, sent, out, acks]; acks counts the ok lines that reach the
\* test of line 112 with the state PRINTING (history)
\* a loop without the commandSent flag: every ok line sends a command
RECURSIVE LineLoop_NoCommandSentFlag(_, _, _, _)
LineLoop_NoCommandSentFlag(lines, i, job, acc) ==
    IF i > Len(lines) - 1 THEN acc
    ELSE IF IsOk(lines[i]) /\ acc.st = "Printing"
         THEN IF ~isComplete(acc.idx, job)
              THEN LineLoop_NoCommandSentFlag(lines, i + 1, job,
                     [st |-> acc.st,
                      idx |-> [acc.idx EXCEPT ![job] = @ + 1],
                      sent |-> TRUE,
                      out |-> Append(acc.out, gcodeScript(job)[acc.idx[job] + 1]),
                      acks |-> acc.acks + 1])
              ELSE LineLoop_NoCommandSentFlag(lines, i + 1, job,
                     [acc EXCEPT !.st = "Ready", !.acks = @ + 1])
         ELSE LineLoop_NoCommandSentFlag(lines, i + 1, job, acc)

\* a loop that declares the job finished as soon as it has sent the last
\* command
RECURSIVE LineLoop_ReadyOnLastCommand(_, _, _, _)
LineLoop_ReadyOnLastCommand(lines, i, job, acc) ==
    IF i > Len(lines) - 1 THEN acc
    ELSE IF IsOk(lines[i]) /\ acc.st = "Printing"
         THEN IF ~isComplete(acc.idx, job)
              THEN IF acc.sent = FALSE
                   THEN LineLoop_ReadyOnLastCommand(lines, i + 1, job,
                          [st |-> IF acc.idx[job] + 1 = Len(gcodeScript(job))
                                  THEN "Ready" ELSE acc.st,
                           idx |-> [acc.idx EXCEPT ![job] = @ + 1],
                           sent |-> TRUE,
                           out |-> Append(acc.out,
                                          gcodeScript(job)[acc.idx[job] + 1]),
                           acks |-> acc.acks + 1])
                   ELSE LineLoop_ReadyOnLastCommand(lines, i + 1, job,
                                 [acc EXCEPT !.acks = @ + 1])
              ELSE LineLoop_ReadyOnLastCommand(lines, i + 1, job,
                            [acc EXCEPT !.st = "Ready", !.acks = @ + 1])
         ELSE LineLoop_ReadyOnLastCommand(lines, i + 1, job, acc)

RECURSIVE LineLoop(_, _, _, _)
LineLoop(lines, i, job, acc) ==
    IF i > Len(lines) - 1 THEN acc
    ELSE IF IsOk(lines[i]) /\ acc.st = "Printing"
         THEN IF ~isComplete(acc.idx, job)
              THEN IF acc.sent = FALSE
                   THEN LineLoop(lines, i + 1, job,
                          [st |-> acc.st,
                           idx |-> [acc.idx EXCEPT ![job] = @ + 1],
                           sent |-> TRUE,
                           out |-> Append(acc.out,
                                          gcodeScript(job)[acc.idx[job] + 1]),
                           acks |-> acc.acks + 1])
                   ELSE LineLoop(lines, i + 1, job,
                                 [acc EXCEPT !.acks = @ + 1])
              ELSE LineLoop(lines, i + 1, job,
                            [acc EXCEPT !.st = "Ready", !.acks = @ + 1])
         ELSE LineLoop(lines, i + 1, job, acc)

\* whether the listener looks at the lines at all
ListenerProcesses(st) == st # "Paused"

\* a listener written without the pause in mind: it handles a paused printer
\* as a printing one
portListener_PauseUnaware(dataFromPort) ==
    LET buf == dataBuffer \o dataFromPort
        outputLines == Split(buf)
        r == LineLoop(outputLines, 1, currentJob,
                      [st |-> IF state = "Paused" THEN "Printing" ELSE state,
                       idx |-> gcodeScriptIndex, sent |-> FALSE, out |-> <<>>, acks |-> 0])
        st == IF state = "Paused" /\ r.st = "Printing" THEN state ELSE r.st
    IN /\ IF st # state THEN setState(st) ELSE UNCHANGED <<obsVars, state>>
       /\ gcodeScriptIndex' = r.idx
       /\ wire' = wire \o r.out
       /\ jobWritten' = IF r.out = <<>> THEN jobWritten
                        ELSE [jobWritten EXCEPT ![currentJob] = @ \o r.out]
       /\ dataBuffer' = outputLines[Len(outputLines)]

\* a listener that drops what arrives during a pause
portListener_DropsPausedInput(dataFromPort) ==
    LET buf == dataBuffer \o dataFromPort IN
    IF ListenerProcesses(state)
    THEN LET outputLines == Split(buf)
             r == LineLoop(outputLines, 1, currentJob,
                           [st |-> state, idx |-> gcodeScriptIndex,
                            sent |-> FALSE, out |-> <<>>, acks |-> 0])
         IN /\ IF r.st # state THEN setState(r.st) ELSE UNCHANGED <<obsVars, state>>
            /\ gcodeScriptIndex' = r.idx
            /\ wire' = wire \o r.out
            /\ jobWritten' = IF r.out = <<>> THEN jobWritten
                             ELSE [jobWritten EXCEPT ![currentJob] = @ \o r.out]
            /\ dataBuffer' = outputLines[Len(outputLines)]
    ELSE UNCHANGED <<obsVars, dataBuffer, state, gcodeScriptIndex, wire, jobWritten>>

\* a listener that forgets the unterminated tail of a batch
portListener_DropsTail(dataFromPort) ==
    LET buf == dataBuffer \o dataFromPort IN
    IF ListenerProcesses(state)
    THEN LET outputLines == Split(buf)
             r == LineLoop(outputLines, 1, currentJob,
                           [st |-> state, idx |-> gcodeScriptIndex,
                            sent |-> FALSE, out |-> <<>>, acks |-> 0])
         IN /\ IF r.st # state THEN setState(r.st) ELSE UNCHANGED <<obsVars, state>>
            /\ gcodeScriptIndex' = r.idx
            /\ wire' = wire \o r.out
            /\ jobWritten' = IF r.out = <<>> THEN jobWritten
                             ELSE [jobWritten EXCEPT ![currentJob] = @ \o r.out]
            /\ dataBuffer' = <<>>
    ELSE /\ dataBuffer' = buf
         /\ UNCHANGED <<obsVars, state, gcodeScriptIndex, wire, jobWritten>>

portListener(dataFromPort) ==
    LET buf == dataBuffer \o dataFromPort IN
    IF ListenerProcesses(state)
    THEN LET outputLines == Split(buf)
             incompleteLine == outputLines[Len(outputLines)]
             r == LineLoop(outputLines, 1, currentJob,
                           [st |-> state, idx |-> gcodeScriptIndex,
                            sent |-> FALSE, out |-> <<>>, acks |-> 0])
         IN /\ IF r.st # state THEN setState(r.st) ELSE UNCHANGED <<obsVars, state>>
            /\ gcodeScriptIndex' = r.idx
            /\ wire' = wire \o r.out
            /\ jobWritten' = IF r.out = <<>> THEN jobWritten
                             ELSE [jobWritten EXCEPT ![currentJob] = @ \o r.out]
            /\ dataBuffer' = incompleteLine
    ELSE /\ dataBuffer' = buf
         /\ UNCHANGED <<obsVars, state, gcodeScriptIndex, wire, jobWritten>>

-----------------------------------------------------------------------------
(* Printer: construction and the API *)

Ports == 1 .. MaxPorts

PInit ==
    /\ state = "NotConnected"
    /\ dataBuffer = <<>>
    /\ currentJob = 0
    /\ serialPort = 0
    /\ gcodeScriptIndex = [j \in Jobs |-> 0]
    /\ jobWritten = [j \in Jobs |-> <<>>]
    /\ portStatus = [h \in Ports |-> "new"]
    /\ wire = <<>>
    /\ ctrlIdx = 0
    /\ ctrlEchoed = FALSE
    /\ rx = <<>>
    /\ noiseCount = 0
    /\ resumeCount = 0
    /\ perr = "none"
    /\ stream = <<>>
    /\ linesSeen = <<>>
    /\ acksSince = 0
    /\ writtenSince = 0
    /\ batchAcks = 0
    /\ batchWrites = 0
    /\ listeners = {}
    /\ notified = [c \in Callbacks |-> <<>>]

\* an API call that throws e before it changed anything
Throws(e) ==
    /\ perr' = e
    /\ UNCHANGED <<obsVars, state, dataBuffer, jobVars, portVars, wire, rx, ctrlVars,
                   resumeCount>>

\* setSerialPort(serialPortLocation, baudRate, connectedCallback)
setSerialPort(validBaud) ==
    /\ UNCHANGED <<qvars, feedVars, regVars>>
    /\ IF ~validBaud
       THEN Throws("Error")
       ELSE IF serialPort # 0 /\ state \in {"Printing", "Paused"}
       THEN Throws("PrinterError")
       ELSE /\ serialPort < MaxPorts
            /\ setState("Connecting")
            /\ serialPort' = serialPort + 1
            /\ portStatus' = [h \in Ports |->
                   IF h = serialPort + 1 THEN "opening"
                   ELSE IF h = serialPort /\ portStatus[h] \in {"opening", "open"}
                        THEN "closing"
                        ELSE portStatus[h]]
            /\ wire' = <<>>
            /\ rx' = <<>>
            /\ ctrlIdx' = 0
            /\ ctrlEchoed' = FALSE
            /\ perr' = "none"
            /\ UNCHANGED <<dataBuffer, jobVars, noiseCount, resumeCount>>

\* the callback handed to new SerialPort(...): the port has opened
openCallback(h) ==
    /\ portStatus[h] = "opening"
    /\ portStatus' = [portStatus EXCEPT ![h] = "open"]
    /\ setState("Ready")
    /\ UNCHANGED <<dataBuffer, jobVars, serialPort, wire, rx, ctrlVars,
                   resumeCount, perr>>
    /\ UNCHANGED <<qvars, feedVars, regVars>>

\* a #closeListener that gets past its first test: the assignments of lines
\* 181-183 run, whichever handle the event belongs to
closeListener_Resets(h) ==
    /\ portStatus[h] = "closing"
    /\ portStatus' = [portStatus EXCEPT ![h] = "closed"]
    /\ serialPort' = 0
    /\ dataBuffer' = <<>>
    /\ setState("NotConnected")
    /\ UNCHANGED <<jobVars, wire, rx, ctrlVars, resumeCount, perr>>
    /\ UNCHANGED <<qvars, feedVars, regVars>>

\* #closeListener, run on the 'close' event of a handle: evaluating
\* `err instanceof DisconnectedError` raises a ReferenceError (the name is
\* declared nowhere in the module), so the statements after it never run
closeListener(h) ==
    /\ portStatus[h] = "closing"
    /\ portStatus' = [portStatus EXCEPT ![h] = "closed"]
    /\ UNCHANGED <<obsVars, state, dataBuffer, jobVars, serialPort, wire, rx,
                   ctrlVars, resumeCount, perr>>
    /\ UNCHANGED <<qvars, feedVars, regVars>>

\* a setJob that takes the job whatever the state is
setJob_AnyState(j) ==
    /\ UNCHANGED <<qvars, feedVars, regVars>>
    /\ currentJob' = j
    /\ perr' = "none"
    /\ UNCHANGED <<obsVars, state, dataBuffer, gcodeScriptIndex, jobWritten,
                   portVars, wire, rx, ctrlVars, resumeCount>>

setJob(j) ==
    /\ UNCHANGED <<qvars, feedVars, regVars>>
    /\ IF state \in {"Paused", "Printing"}
       THEN Throws("PrinterError")
       ELSE /\ currentJob' = j
            /\ perr' = "none"
            /\ UNCHANGED <<obsVars, state, dataBuffer, gcodeScriptIndex, jobWritten,
                           portVars, wire, rx, ctrlVars, resumeCount>>

startPrintCore ==
    /\ UNCHANGED <<qvars, regVars>>
    /\ IF state = "Ready"
       THEN IF currentJob = 0
            THEN Throws("PrinterError")
            ELSE /\ setState("Printing")
                 /\ IF isComplete(gcodeScriptIndex, currentJob)
                    THEN \* nextGcodeCommand throws after the state was set
                         /\ perr' = "Error"
                         /\ UNCHANGED <<gcodeScriptIndex, jobWritten, wire>>
                    ELSE LET nextCommand ==
                               gcodeScript(currentJob)[gcodeScriptIndex[currentJob] + 1]
                         IN /\ gcodeScriptIndex' =
                                  [gcodeScriptIndex EXCEPT ![currentJob] = @ + 1]
                            /\ wire' = Append(wire, nextCommand)
                            /\ jobWritten' = [jobWritten EXCEPT ![currentJob] =
                                                Append(@, nextCommand)]
                            /\ perr' = "none"
                 /\ UNCHANGED <<dataBuffer, currentJob, portVars, rx, ctrlVars,
                                resumeCount>>
       ELSE IF state = "Error"
       THEN /\ perr' = "none"
            /\ UNCHANGED <<obsVars, state, dataBuffer, jobVars, portVars, wire, rx,
                           ctrlVars, resumeCount>>
       ELSE Throws("PrinterError")

startPrint ==
    /\ startPrintCore
    /\ UNCHANGED feedVars

\* a pausePrint that pauses whatever the state is
pausePrint_AnyState ==
    /\ UNCHANGED <<qvars, feedVars, regVars>>
    /\ setState("Paused")
    /\ perr' = "none"
    /\ UNCHANGED <<dataBuffer, jobVars, portVars, wire, rx, ctrlVars,
                   resumeCount>>

pausePrint ==
    /\ UNCHANGED <<qvars, feedVars, regVars>>
    /\ IF state = "Printing"
       THEN /\ setState("Paused")
            /\ perr' = "none"
            /\ UNCHANGED <<dataBuffer, jobVars, portVars, wire, rx, ctrlVars,
                           resumeCount>>
       ELSE Throws("PrinterError")

\* a resume that, instead of probing, sends the next command of the job
continuePrint_SendsNext ==
    /\ UNCHANGED <<qvars, feedVars, regVars>>
    /\ IF state = "Paused"
       THEN /\ resumeCount < MaxResume
            /\ resumeCount' = resumeCount + 1
            /\ setState("Printing")
            /\ IF isComplete(gcodeScriptIndex, currentJob)
               THEN UNCHANGED <<gcodeScriptIndex, jobWritten, wire>>
               ELSE LET nextCommand ==
                          gcodeScript(currentJob)[gcodeScriptIndex[currentJob] + 1]
                    IN /\ gcodeScriptIndex' =
                             [gcodeScriptIndex EXCEPT ![currentJob] = @ + 1]
                       /\ wire' = Append(wire, nextCommand)
                       /\ jobWritten' = [jobWritten EXCEPT ![currentJob] =
                                           Append(@, nextCommand)]
            /\ perr' = "none"
            /\ UNCHANGED <<dataBuffer, currentJob, portVars, rx, ctrlVars>>
       ELSE Throws("PrinterError")

continuePrint ==
    /\ UNCHANGED <<qvars, feedVars, regVars>>
    /\ IF state = "Paused"
       THEN /\ resumeCount < MaxResume
            /\ resumeCount' = resumeCount + 1
            /\ setState("Printing")
            /\ wire' = Append(wire, SERIAL_PRINT_COMMAND)
            /\ perr' = "none"
            /\ UNCHANGED <<dataBuffer, jobVars, portVars, rx, ctrlVars>>
       ELSE Throws("PrinterError")

\* closeSerialPort: close() of the handle; with no handle the call raises
\* a TypeError, and a handle that is not open stays as it is
closeSerialPort ==
    /\ UNCHANGED <<qvars, feedVars, regVars>>
    /\ IF serialPort = 0
       THEN Throws("TypeError")
       ELSE /\ portStatus' = [portStatus EXCEPT ![serialPort] =
                                 IF @ = "open" THEN "closing" ELSE @]
            /\ perr' = "none"
            /\ UNCHANGED <<obsVars, state, dataBuffer, jobVars, serialPort, wire, rx,
                           ctrlVars, resumeCount>>

-----------------------------------------------------------------------------
(* The controller at the other end of the transport (the virtual printer): it
   answers every line it receives with one ok line, an M118 E1 with its echo
   first *)

Connected == serialPort # 0 /\ portStatus[serialPort] = "open"

ControllerReply ==
    /\ Connected
    /\ ctrlIdx < Len(wire)
    /\ IF wire[ctrlIdx + 1] = SERIAL_PRINT_COMMAND /\ ~ctrlEchoed
       THEN /\ rx' = rx \o EchoText
            /\ ctrlEchoed' = TRUE
            /\ UNCHANGED ctrlIdx
       ELSE /\ rx' = rx \o OkText
            /\ ctrlEchoed' = FALSE
            /\ ctrlIdx' = ctrlIdx + 1
    /\ UNCHANGED <<obsVars, state, dataBuffer, jobVars, portVars, wire, noiseCount,
                   resumeCount, perr>>
    /\ UNCHANGED <<qvars, feedVars, regVars>>

\* a peer that prints any line at any time
StrayTexts == {OkText, NoiseText}

ControllerAny(text) ==
    /\ Connected
    /\ noiseCount < MaxStray
    /\ noiseCount' = noiseCount + 1
    /\ rx' = rx \o text
    /\ UNCHANGED <<obsVars, state, dataBuffer, jobVars, portVars, wire, ctrlIdx,
                   ctrlEchoed, resumeCount, perr>>
    /\ UNCHANGED <<qvars, feedVars, regVars>>

\* the two bytes of a character outside ASCII, and what stands for U+FFFD
LeadByte == "c3"
ContByte == "a9"
TwoByteChar == "E"
ReplacementChar == "?"

\* dataFromPort.toString(MARLIN_PROTOCOL_ENCODING) of a Buffer: a byte below
\* 0x80 is its character, the two bytes of a character are that character
\* and every byte of an incomplete sequence becomes U+FFFD
RECURSIVE toString(_)
toString(bytes) ==
    IF bytes = <<>> THEN <<>>
    ELSE IF bytes[1] = LeadByte /\ Len(bytes) >= 2 /\ bytes[2] = ContByte
         THEN <<TwoByteChar>> \o toString(SubSeq(bytes, 3, Len(bytes)))
         ELSE IF bytes[1] \in {LeadByte, ContByte}
         THEN <<ReplacementChar>> \o toString(Tail(bytes))
         ELSE <<bytes[1]>> \o toString(Tail(bytes))

\* a 'data' event of the current handle delivering the next n bytes
DataEventCore(n) ==
    /\ Connected
    /\ n \in 1 .. Len(rx)
    /\ portListener(toString(SubSeq(rx, 1, n)))
    /\ rx' = SubSeq(rx, n + 1, Len(rx))
    /\ UNCHANGED <<currentJob, portVars, ctrlVars, resumeCount, perr>>
    /\ UNCHANGED <<qvars, regVars>>

DataEvent(n) ==
    /\ DataEventCore(n)
    /\ UNCHANGED feedVars

\* the lines the for loop of #portListener visits: all but the last piece
ProcessedLines(buf) ==
    LET outputLines == Split(buf)
    IN SubSeq(outputLines, 1, Len(outputLines) - 1)

\* the same event with the bytes and the lines gone over put on record
FramedDataEvent(n) ==
    /\ DataEventCore(n)
    /\ stream' = stream \o SubSeq(rx, 1, n)
    /\ linesSeen' = IF ListenerProcesses(state)
                    THEN linesSeen \o
                         ProcessedLines(dataBuffer \o toString(SubSeq(rx, 1, n)))
                    ELSE linesSeen
    /\ UNCHANGED <<countVars, jobModule>>

\* startPrint with the counts since the start of the print begun anew
CountedStartPrint ==
    /\ startPrintCore
    /\ IF state = "Ready" /\ currentJob # 0
       THEN /\ acksSince' = 0
            /\ writtenSince' = Len(wire') - Len(wire)
            /\ batchAcks' = 0
            /\ batchWrites' = 0
       ELSE UNCHANGED countVars
    /\ UNCHANGED <<stream, linesSeen, jobModule>>

\* the 'data' event with the ok lines its loop handled and the commands it
\* wrote put on record
CountedDataEvent(n) ==
    /\ DataEventCore(n)
    /\ IF ListenerProcesses(state)
       THEN LET r == LineLoop(Split(dataBuffer \o toString(SubSeq(rx, 1, n))),
                              1, currentJob,
                              [st |-> state, idx |-> gcodeScriptIndex,
                               sent |-> FALSE, out |-> <<>>, acks |-> 0])
            IN /\ acksSince' = acksSince + r.acks
               /\ writtenSince' = writtenSince + Len(r.out)
               /\ batchAcks' = r.acks
               /\ batchWrites' = Len(r.out)
       ELSE /\ batchAcks' = 0
            /\ batchWrites' = 0
            /\ UNCHANGED <<acksSince, writtenSince>>
    /\ UNCHANGED <<stream, linesSeen, jobModule>>

\* what a peer prints: an ok line, a fragment with no newline and a line
\* with a character of two bytes
FramingTexts == {OkText, <<"x">>, <<LeadByte, ContByte, NL>>}

-----------------------------------------------------------------------------
(* The queue-based engine: sendGCodeCommand, onOutputMatch and the serial
   communication loop *)

CmdIds == 1 .. MaxCmds
ExtIds == 1 .. MaxExt

RESPONSE_COMPLETED == <<"o", "k">>

\* PrinterState.CONNECTING: the object literal names the key twice and the
\* later value wins
CONNECTING == "Connected"

\* the command texts callers pass: without and with the trailing newline,
\* and two lines in one text
GCodeInputs == {<<"m">>, <<"m", NL>>, <<"m", NL, "m", NL>>}

\* the timeoutAfter values callers pass (-1 is the default)
TimeoutInputs == {-1, 1000}

HELLO_CMD == <<"h">>
HELLO_CMD_TIMEOUT == 5000

\* countChar(str, '\n')
countChar(str, char) == Cardinality({i \in 1 .. Len(str) : str[i] = char})

Bump(n) == IF n < MaxCalls THEN n + 1 ELSE n

QInit ==
    /\ printerState = CONNECTING
    /\ sendQueue = <<>>
    /\ extractorStack = <<>>
    /\ commands = <<>>
    /\ extractors = <<>>
    /\ outputBuffer = <<>>
    /\ previousCommand = 0
    /\ nextGCodeCommand = 0
    /\ listenerPc = "read"
    /\ registered = FALSE
    /\ written = <<>>
    /\ outstanding = <<>>
    /\ ackSeen = {}
    /\ ackArrived = {}
    /\ inputSeen = FALSE
    /\ qerr = "none"

\* new SentGCodeCommand(...) followed by the setTimeout of sendGCodeCommand
NewCommand(gcodeCommand, timeoutAfter, sendImmediately) ==
    [command |-> gcodeCommand,
     immediate |-> sendImmediately,    \* the argument of the call (history)
     state |-> "Sent",
     timeoutAfter |-> timeoutAfter,
     timer |-> IF timeoutAfter > 0 THEN "armed" ELSE "none",
     completed |-> 0,
     rejected |-> 0,
     late |-> FALSE]    \* an acknowledgement was processed after the timeout (history)

\* a sendGCodeCommand that also takes commands for a paused printer
SendOutcome_AcceptsPaused(gcodeCommand, st, timeoutAfter, sendImmediately, autoChangeState) ==
    LET text == IF gcodeCommand # <<>> /\ gcodeCommand[Len(gcodeCommand)] = NL
                THEN gcodeCommand ELSE Append(gcodeCommand, NL)
        st2 == IF st = "Ready" /\ autoChangeState THEN "Printing" ELSE st
    IN IF countChar(text, NL) # 1
       THEN [err |-> "Error", state |-> st, accepted |-> FALSE, text |-> text]
       ELSE IF st2 \in {"Printing", "Paused"}
       THEN [err |-> "none", state |-> st2, accepted |-> TRUE, text |-> text]
       ELSE [err |-> "CommError", state |-> st2, accepted |-> FALSE, text |-> text]

\* the part of sendGCodeCommand after the type checks; st is printer.state
\* on entry
SendOutcome(gcodeCommand, st, timeoutAfter, sendImmediately, autoChangeState) ==
    LET text == IF gcodeCommand # <<>> /\ gcodeCommand[Len(gcodeCommand)] = NL
                THEN gcodeCommand ELSE Append(gcodeCommand, NL)
        st2 == IF st = "Ready" /\ autoChangeState THEN "Printing" ELSE st
    IN IF countChar(text, NL) # 1
       THEN [err |-> "Error", state |-> st, accepted |-> FALSE, text |-> text]
       ELSE IF st2 = "Printing"
       THEN [err |-> "none", state |-> st2, accepted |-> TRUE, text |-> text]
       ELSE [err |-> "CommError", state |-> st2, accepted |-> FALSE, text |-> text]

\* an enqueue that ignores sendImmediately
Enqueue_AlwaysTail(queue, id, sendImmediately) == Append(queue, id)

\* lines 206-210: push, or unshift when sendImmediately is set
Enqueue(queue, id, sendImmediately) ==
    IF sendImmediately = FALSE THEN Append(queue, id) ELSE <<id>> \o queue

\* createSerialCommunicationLoop after the boot delay: the state becomes
\* READY, sendHello writes HELLO_CMD as it is and the hello command is
\* enqueued at the front with HELLO_CMD_TIMEOUT
BootDone ==
    /\ printerState = CONNECTING
    /\ commands = <<>>
    /\ LET r == SendOutcome(HELLO_CMD, "Ready", HELLO_CMD_TIMEOUT, TRUE, TRUE)
       IN /\ printerState' = r.state
          /\ commands' = Append(commands,
                             NewCommand(r.text, HELLO_CMD_TIMEOUT, TRUE))
          /\ sendQueue' = Enqueue(sendQueue, Len(commands) + 1, TRUE)
          /\ qerr' = r.err
    /\ written' = Append(written, 0)
    /\ UNCHANGED <<extractorStack, extractors, outputBuffer, previousCommand,
                   nextGCodeCommand, listenerPc, registered, outstanding,
                   ackSeen, ackArrived,
                   inputSeen>>
    /\ UNCHANGED <<pvars, regVars>>

\* a handshake whose failure fails the connection: the printer goes to
\* Error and is not registered
HelloSettled_FailsOnTimeout ==
    /\ ~registered
    /\ Len(commands) >= 1
    /\ commands[1].state # "Sent"
    /\ IF commands[1].state = "TimedOut"
       THEN /\ printerState' = "Error"
            /\ UNCHANGED registered
       ELSE /\ registered' = TRUE
            /\ UNCHANGED printerState
    /\ UNCHANGED <<sendQueue, extractorStack, commands,
                   extractors, outputBuffer, previousCommand, nextGCodeCommand,
                   listenerPc, written, outstanding, ackSeen, ackArrived,
                   inputSeen, qerr>>
    /\ UNCHANGED <<pvars, regVars>>

\* the await of the hello command in createSerialCommunicationLoop ends, by
\* fulfilment or by rejection: the printer is registered and returned
HelloSettled ==
    /\ ~registered
    /\ Len(commands) >= 1
    /\ commands[1].state # "Sent"
    /\ registered' = TRUE
    /\ UNCHANGED <<printerState, sendQueue, extractorStack, commands,
                   extractors, outputBuffer, previousCommand, nextGCodeCommand,
                   listenerPc, written, outstanding, ackSeen, ackArrived,
                   inputSeen, qerr>>
    /\ UNCHANGED <<pvars, regVars>>

\* sendGCodeCommand called by a holder of the printer
sendGCodeCommand(gcodeCommand, timeoutAfter, sendImmediately, autoChangeState) ==
    /\ registered
    /\ LET r == SendOutcome(gcodeCommand, printerState, timeoutAfter,
                            sendImmediately, autoChangeState)
           id == Len(commands) + 1
       IN /\ printerState' = r.state
          /\ qerr' = r.err
          /\ IF r.accepted
             THEN /\ id <= MaxCmds
                  /\ commands' = Append(commands,
                                     NewCommand(r.text, timeoutAfter, sendImmediately))
                  /\ sendQueue' = Enqueue(sendQueue, id, sendImmediately)
             ELSE UNCHANGED <<commands, sendQueue>>
    /\ UNCHANGED <<extractorStack, extractors, outputBuffer, previousCommand,
                   nextGCodeCommand, listenerPc, registered, written,
                   outstanding, ackSeen, ackArrived,
                   inputSeen>>
    /\ UNCHANGED <<pvars, regVars>>

\* the timer callback that does nothing
CommandTimeout_Never(c) == [c EXCEPT !.timer = "fired"]

\* the setTimeout callback of sendGCodeCommand
CommandTimeout(c) ==
    IF c.state = "Sent"
    THEN [c EXCEPT !.timer = "fired", !.state = "TimedOut", !.rejected = Bump(@)]
    ELSE [c EXCEPT !.timer = "fired"]

CommandTimerFires(i) ==
    /\ i \in 1 .. Len(commands)
    /\ commands[i].timer = "armed"
    /\ commands' = [commands EXCEPT ![i] = CommandTimeout(@)]
    /\ UNCHANGED <<printerState, sendQueue, extractorStack, extractors,
                   outputBuffer, previousCommand, nextGCodeCommand, listenerPc,
                   registered, written, outstanding, ackSeen, ackArrived,
                   inputSeen, qerr>>
    /\ UNCHANGED <<pvars, regVars>>

\* onOutputMatch(regex, printer, execRegexOnOk, responseTimeout)
onOutputMatch(execRegexOnOk) ==
    /\ registered
    /\ Len(extractors) < MaxExt
    /\ extractors' = Append(extractors,
           [execRegexOnOk |-> execRegexOnOk, state |-> "Pending",
            timer |-> "armed", completed |-> 0, rejected |-> 0])
    /\ extractorStack' = Append(extractorStack, Len(extractors) + 1)
    /\ qerr' = "none"
    /\ UNCHANGED <<printerState, sendQueue, commands, outputBuffer,
                   previousCommand, nextGCodeCommand, listenerPc, registered,
                   written, outstanding, ackSeen, ackArrived,
                   inputSeen>>
    /\ UNCHANGED <<pvars, regVars>>

\* the timer callback that rejects and leaves the state alone
ExtractorTimeout_KeepsState(e) ==
    IF e.state = "Pending"
    THEN [e EXCEPT !.timer = "fired", !.rejected = Bump(@)]
    ELSE [e EXCEPT !.timer = "fired"]

\* the setTimeout callback of onOutputMatch
ExtractorTimeout(e) ==
    IF e.state = "Pending"
    THEN [e EXCEPT !.timer = "fired", !.state = "TimedOut", !.rejected = Bump(@)]
    ELSE [e EXCEPT !.timer = "fired"]

ExtractorTimerFires(i) ==
    /\ i \in 1 .. Len(extractors)
    /\ extractors[i].timer = "armed"
    /\ extractors' = [extractors EXCEPT ![i] = ExtractorTimeout(@)]
    /\ UNCHANGED <<printerState, sendQueue, extractorStack, commands,
                   outputBuffer, previousCommand, nextGCodeCommand, listenerPc,
                   registered, written, outstanding, ackSeen, ackArrived,
                   inputSeen, qerr>>
    /\ UNCHANGED <<pvars, regVars>>

-----------------------------------------------------------------------------
(* serialPortListener: the loop of createSerialCommunicationLoop.  One pass
   runs from the end of the awaited read to the next await: the read of the
   next pass, or the write of a dequeued command *)

\* outputBuffer.split('\n').includes(RESPONSE_COMPLETED)
ResponseCompleted(buf) ==
    LET pieces == Split(buf)
    IN \E i \in 1 .. Len(pieces) : pieces[i] = RESPONSE_COMPLETED

\* extractor.exec(outputBuffer): class Extractor declares regex,
\* onMatchCallback, onPrinterErrorCallback, execRegexOnOk and state and no
\* method exec, so the call raises a TypeError
ExtractorExec(e, buf) == "TypeError"

\* the while loop over printer.extractorStack; stack is the array being
\* popped, acc = [incomplete, exts, threw, stack]
RECURSIVE ExtractorLoop(_, _, _, _)
ExtractorLoop(stack, buf, responseCompleted, acc) ==
    IF stack = <<>> THEN [acc EXCEPT !.stack = stack]
    ELSE LET e == stack[Len(stack)]
             rest == SubSeq(stack, 1, Len(stack) - 1)
         IN IF acc.exts[e].state = "TimedOut"
            THEN ExtractorLoop(rest, buf, responseCompleted, acc)
            ELSE IF acc.exts[e].execRegexOnOk /\ ~responseCompleted
            THEN ExtractorLoop(rest, buf, responseCompleted,
                    [acc EXCEPT !.incomplete = Append(@, e)])
            ELSE LET foundMatch == ExtractorExec(acc.exts[e], buf)
                 IN IF foundMatch = "TypeError"
                    THEN [acc EXCEPT !.threw = TRUE, !.stack = rest]
                    ELSE IF foundMatch = TRUE
                    THEN ExtractorLoop(rest, buf, responseCompleted,
                            [acc EXCEPT !.exts[e].state = "FoundMatch",
                                        !.exts[e].completed = Bump(@)])
                    ELSE ExtractorLoop(rest, buf, responseCompleted,
                            [acc EXCEPT !.incomplete = Append(@, e)])

\* a dequeue that writes whatever is at the head
NextToWrite_NoTimeoutTest(queue, cmds) ==
    IF queue = <<>> THEN [next |-> 0, queue |-> queue]
    ELSE [next |-> Head(queue), queue |-> Tail(queue)]

\* the head of the while loop over sendQueue: shift until a command that has
\* not timed out is found (next = 0: the queue ran empty)
RECURSIVE NextToWrite(_, _)
NextToWrite(queue, cmds) ==
    IF queue = <<>> THEN [next |-> 0, queue |-> queue]
    ELSE IF cmds[Head(queue)].state = "TimedOut"
         THEN NextToWrite(Tail(queue), cmds)
         ELSE [next |-> Head(queue), queue |-> Tail(queue)]

\* an acknowledgement handler that resolves whatever the state is
Acknowledge_NoGuard(cmds, prev) ==
    IF prev # 0
    THEN [cmds EXCEPT ![prev].state = "ReceivedResponse",
                      ![prev].completed = Bump(@)]
    ELSE cmds

\* lines 352-358: the previous command receives its response
Acknowledge(cmds, prev) ==
    IF prev = 0 THEN cmds
    ELSE IF cmds[prev].state # "TimedOut"
    THEN [cmds EXCEPT ![prev].state = "ReceivedResponse",
                      ![prev].completed = Bump(@)]
    ELSE [cmds EXCEPT ![prev].late = TRUE]

\* the sendQueue loop from its head to the awaited write, or to its end
\* (out is the history of outstanding commands at this point)
DequeueAndWrite(cmds, out) ==
    LET d == NextToWrite(sendQueue, cmds)
    IN /\ sendQueue' = d.queue
       /\ nextGCodeCommand' = d.next
       /\ IF d.next # 0
          THEN /\ written' = Append(written, d.next)
               /\ outstanding' = Append(out, d.next)
               /\ listenerPc' = "write"
          ELSE /\ written' = written
               /\ outstanding' = out
               /\ listenerPc' = "read"

\* the texts the peer sends in one read
ReadTexts == {OkText, NoiseText}

\* the read resolves with `text` and the pass runs to its next await.  An
\* ok line in `text` is the peer's acknowledgement of the oldest command
\* it has not acknowledged yet (history)
serialPortListener_Pass(text) ==
    /\ listenerPc = "read"
    /\ inputSeen' = TRUE
    /\ LET buf == outputBuffer \o text
           responseCompleted == ResponseCompleted(buf)
           x == ExtractorLoop(extractorStack, buf, responseCompleted,
                    [incomplete |-> <<>>, exts |-> extractors,
                     threw |-> FALSE, stack |-> <<>>])
           acks == ResponseCompleted(text) /\ outstanding # <<>>
           out == IF acks THEN Tail(outstanding) ELSE outstanding
           arrived == IF acks /\ commands[Head(outstanding)].state = "Sent"
                      THEN ackArrived \cup {Head(outstanding)}
                      ELSE ackArrived
       IN /\ outputBuffer' = buf
          /\ IF printerState # "Printing"
             THEN /\ outstanding' = out
                  /\ ackArrived' = arrived
                  /\ UNCHANGED <<extractorStack, extractors, commands,
                                 sendQueue, nextGCodeCommand, written,
                                 ackSeen, listenerPc>>
             ELSE IF x.threw
             THEN \* caught at line 378: the rest of the pass is skipped
                  /\ extractorStack' = x.stack
                  /\ extractors' = x.exts
                  /\ outstanding' = out
                  /\ ackArrived' = arrived
                  /\ UNCHANGED <<commands, sendQueue, nextGCodeCommand,
                                 written, ackSeen, listenerPc>>
             ELSE /\ extractorStack' = x.incomplete
                  /\ extractors' = x.exts
                  /\ IF responseCompleted
                     THEN /\ commands' = Acknowledge(commands, previousCommand)
                          /\ ackSeen' = ackSeen \cup arrived
                          /\ ackArrived' = {}
                          /\ DequeueAndWrite(commands', out)
                     ELSE /\ outstanding' = out
                          /\ ackArrived' = arrived
                          /\ UNCHANGED <<commands, sendQueue, nextGCodeCommand,
                                         written, ackSeen, listenerPc>>
    /\ UNCHANGED <<printerState, previousCommand, registered, qerr>>

\* a read of an arbitrary peer's output
serialPortListener_Read(text) ==
    /\ Len(outputBuffer) + Len(text) <= MaxBuf
    /\ serialPortListener_Pass(text)
    /\ UNCHANGED <<pvars, regVars>>

\* the awaited write returns: lines 370-374, then the loop goes on
serialPortListener_Written ==
    /\ listenerPc = "write"
    /\ previousCommand' = nextGCodeCommand
    /\ outputBuffer' = <<>>
    /\ DequeueAndWrite(commands, outstanding)
    /\ UNCHANGED <<printerState, extractorStack, extractors, commands,
                   registered, ackSeen, ackArrived, inputSeen, qerr>>
    /\ UNCHANGED <<pvars, regVars>>

\* serialPortBinding.isOpen as the test of line 307 finds it
isOpen == listenerPc # "ended"

\* the connection of a registered printer closes: the read or write the
\* listener awaits rejects, the catch of line 378 logs it and the test of
\* line 307 ends the loop.  Nothing else is done
ConnectionCloses ==
    /\ registered
    /\ isOpen
    /\ listenerPc' = "ended"
    /\ UNCHANGED <<printerState, sendQueue, extractorStack, commands,
                   extractors, outputBuffer, previousCommand, nextGCodeCommand,
                   registered, written, outstanding, ackSeen, ackArrived,
                   inputSeen, qerr>>
    /\ UNCHANGED <<pvars, regVars>>

QueueNext ==
    \/ BootDone
    \/ HelloSettled
    \/ \E g \in GCodeInputs, t \in TimeoutInputs, imm \in BOOLEAN, auto \in BOOLEAN :
          sendGCodeCommand(g, t, imm, auto)
    \/ \E i \in CmdIds : CommandTimerFires(i)
    \/ \E b \in BOOLEAN : onOutputMatch(b)
    \/ \E i \in ExtIds : ExtractorTimerFires(i)
    \/ \E t \in ReadTexts : serialPortListener_Read(t)
    \/ serialPortListener_Written

\* the longest text one 'data' event delivers
MaxChunk == 4

PrinterNext ==
    \/ \E b \in BOOLEAN : setSerialPort(b)
    \/ \E h \in Ports : openCallback(h)
    \/ \E h \in Ports : closeListener(h)
    \/ \E j \in Jobs : setJob(j)
    \/ startPrint
    \/ pausePrint
    \/ continuePrint
    \/ ControllerReply
    \/ \E n \in 1 .. MaxChunk : DataEvent(n)

PrinterAnyNext ==
    \/ \E b \in BOOLEAN : setSerialPort(b)
    \/ \E h \in Ports : openCallback(h)
    \/ \E h \in Ports : closeListener(h)
    \/ \E j \in Jobs : setJob(j)
    \/ startPrint
    \/ pausePrint
    \/ continuePrint
    \/ \E t \in StrayTexts : ControllerAny(t)
    \/ \E n \in 1 .. MaxChunk : DataEvent(n)


-----------------------------------------------------------------------------
(* getPrinterAtSerialPort: each call is a process that stops at its awaits *)

Callers == 1 .. MaxCallers
Paths == 1 .. MaxPaths

RInit ==
    /\ connectedSerialPrinters = [p \in Paths |-> 0]
    /\ callPc = [c \in Callers |-> "idle"]
    /\ callPort = [c \in Callers |-> 0]
    /\ callPrinter = [c \in Callers |-> 0]
    /\ printersMade = [p \in Paths |-> 0]
    /\ handlesOpened = [p \in Paths |-> 0]

\* a fresh identity for a Printer object
NewPrinterId == 1 + Cardinality({c \in Callers : callPrinter[c] # 0})

\* the call up to its first await: the lookup in the map, or new Printer()
\* and binding.open(...)
getPrinterAtSerialPort(c, port) ==
    /\ callPc[c] = "idle"
    /\ callPort' = [callPort EXCEPT ![c] = port]
    /\ IF connectedSerialPrinters[port] # 0
       THEN /\ callPrinter' = [callPrinter EXCEPT ![c] = connectedSerialPrinters[port]]
            /\ callPc' = [callPc EXCEPT ![c] = "returned"]
            /\ UNCHANGED printersMade
       ELSE /\ callPrinter' = [callPrinter EXCEPT ![c] = NewPrinterId]
            /\ printersMade' = [printersMade EXCEPT ![port] = @ + 1]
            /\ callPc' = [callPc EXCEPT ![c] = "open"]
    /\ UNCHANGED <<connectedSerialPrinters, handlesOpened>>
    /\ UNCHANGED <<pvars, qvars, knownVars>>

\* await binding.open(...) settles: the binding opens the path, or refuses
\* (a path that is held already may be refused or not, by the binding)
OpenSettled(c, opened) ==
    /\ callPc[c] = "open"
    /\ IF opened
       THEN /\ handlesOpened' = [handlesOpened EXCEPT ![callPort[c]] = @ + 1]
            /\ callPc' = [callPc EXCEPT ![c] = "loop"]
       ELSE /\ callPc' = [callPc EXCEPT ![c] = "threw"]
            /\ UNCHANGED handlesOpened
    /\ UNCHANGED <<connectedSerialPrinters, callPort, callPrinter, printersMade>>
    /\ UNCHANGED <<pvars, qvars, knownVars>>

\* await createSerialCommunicationLoop(newPrinter) returns: the boot delay
\* is over and the hello command has settled; the printer is put in the map
LoopReturned(c) ==
    /\ callPc[c] = "loop"
    /\ connectedSerialPrinters' =
          [connectedSerialPrinters EXCEPT ![callPort[c]] = callPrinter[c]]
    /\ callPc' = [callPc EXCEPT ![c] = "returned"]
    /\ UNCHANGED <<callPort, callPrinter, printersMade, handlesOpened>>
    /\ UNCHANGED <<pvars, qvars, knownVars>>

RegistryNext ==
    \/ \E c \in Callers, port \in Paths : getPrinterAtSerialPort(c, port)
    \/ \E c \in Callers, opened \in BOOLEAN : OpenSettled(c, opened)
    \/ \E c \in Callers : LoopReturned(c)

-----------------------------------------------------------------------------
(* getKnownPrinters and getConnectedSerialPorts *)

ACM_SERIAL == "ttyACM"
USB_SERIAL == "ttyUSB"

\* file names of /dev, cut so that 'ttyACM' and 'ttyUSB' are one piece
DevNames == {<<USB_SERIAL, "0">>, <<ACM_SERIAL, "0">>, <<"sda">>}

\* fileName.includes(piece)
includes(fileName, piece) == \E i \in 1 .. Len(fileName) : fileName[i] = piece

\* '/dev/' + fileName
DevPath(fileName) == <<"/dev/">> \o fileName

\* what binding.list() resolves with: PortInfo objects
DetectedLists ==
    {<<>>,
     <<[path |-> DevPath(<<ACM_SERIAL, "0">>)]>>,
     <<[path |-> <<"COM", "1">>], [path |-> DevPath(<<ACM_SERIAL, "0">>)]>>}

\* what readdir('/dev') resolves with
DevDirs ==
    {<<>>,
     <<<<"sda">>, <<USB_SERIAL, "0">>>>,
     <<<<ACM_SERIAL, "0">>, <<"sda">>, <<USB_SERIAL, "0">>>>}

Platforms == {"linux", "win32"}

\* lines 131-137: the names of /dev that look like serial ports, as paths
RECURSIVE OtherSerialPorts(_, _)
OtherSerialPorts(devDir, i) ==
    IF i > Len(devDir) THEN <<>>
    ELSE IF includes(devDir[i], ACM_SERIAL) \/ includes(devDir[i], USB_SERIAL)
         THEN <<DevPath(devDir[i])>> \o OtherSerialPorts(devDir, i + 1)
         ELSE OtherSerialPorts(devDir, i + 1)

\* lines 148-162: the other ports that are not detected yet are appended
RECURSIVE AddOtherPorts(_, _, _)
AddOtherPorts(detectedSerialPorts, otherSerialPorts, i) ==
    IF i > Len(otherSerialPorts) THEN detectedSerialPorts
    ELSE LET port == otherSerialPorts[i]
             addPort == ~\E k \in 1 .. Len(detectedSerialPorts) :
                            port = detectedSerialPorts[k].path
         IN AddOtherPorts(IF addPort
                          THEN Append(detectedSerialPorts, [path |-> port])
                          ELSE detectedSerialPorts,
                          otherSerialPorts, i + 1)

getConnectedSerialPorts(detected, devDir, platform) ==
    AddOtherPorts(detected,
                  IF platform = "linux" THEN OtherSerialPorts(devDir, 1) ELSE <<>>,
                  1)

\* reading the identifier knownPrinters: the module declares no binding of
\* that name (a module is strict code), so the read raises a ReferenceError
ReadKnownPrinters == [err |-> "ReferenceError", value |-> <<>>]

\* lines 448-462: the ports that are not known yet are pushed
RECURSIVE RefreshKnown(_, _, _)
RefreshKnown(known, serialPorts, i) ==
    IF i > Len(serialPorts) THEN known
    ELSE LET port == serialPorts[i]
             isPortKnown == \E k \in 1 .. Len(known) : port.path = known[k].path
         IN RefreshKnown(IF isPortKnown THEN known ELSE Append(known, port),
                         serialPorts, i + 1)

KInit ==
    /\ knownPc = [c \in Callers |-> "idle"]
    /\ knownPorts = [c \in Callers |-> <<>>]
    /\ knownReturned = [c \in Callers |-> [err |-> "none", value |-> <<>>]]
    /\ knownStamp = [c \in Callers |-> 0]

\* the next place in the order of settling
NextStamp == 1 + Cardinality({c \in Callers : knownStamp[c] # 0})

\* getKnownPrinters(refresh) up to its await, or to its return
getKnownPrinters(c, refresh) ==
    /\ knownPc[c] = "idle"
    /\ IF refresh
       THEN /\ knownPc' = [knownPc EXCEPT ![c] = "list"]
            /\ UNCHANGED <<knownPorts, knownReturned, knownStamp>>
       ELSE /\ knownPc' = [knownPc EXCEPT ![c] = "settled"]
            /\ knownReturned' = [knownReturned EXCEPT ![c] = ReadKnownPrinters]
            /\ knownStamp' = [knownStamp EXCEPT ![c] = NextStamp]
            /\ UNCHANGED knownPorts
    /\ UNCHANGED <<pvars, qvars, mapVars>>

\* await getConnectedSerialPorts() returns and the call runs to its end
ListSettled(c, detected, devDir, platform) ==
    /\ knownPc[c] = "list"
    /\ LET serialPorts == getConnectedSerialPorts(detected, devDir, platform)
           known == ReadKnownPrinters
       IN /\ knownPorts' = [knownPorts EXCEPT ![c] = serialPorts]
          /\ knownReturned' = [knownReturned EXCEPT ![c] =
                IF known.err # "none" THEN known
                ELSE [err |-> "none",
                      value |-> RefreshKnown(known.value, serialPorts, 1)]]
    /\ knownPc' = [knownPc EXCEPT ![c] = "settled"]
    /\ knownStamp' = [knownStamp EXCEPT ![c] = NextStamp]
    /\ UNCHANGED <<pvars, qvars, mapVars>>

KnownNext ==
    \/ \E c \in Callers, refresh \in BOOLEAN : getKnownPrinters(c, refresh)
    \/ \E c \in Callers, detected \in DetectedLists, devDir \in DevDirs,
          platform \in Platforms : ListSettled(c, detected, devDir, platform)

\* the Job class is the one of printer/job.js
JInit == jobModule = "printer/job.js"

Init == PInit /\ QInit /\ RInit /\ KInit /\ JInit

\* getKnownPrinters called with any device lists
SpecKnown == Init /\ [][KnownNext]_vars

\* concurrent getPrinterAtSerialPort calls
SpecRegistry == Init /\ [][RegistryNext]_vars

FramingNext ==
    \/ setSerialPort(TRUE)
    \/ \E h \in Ports : openCallback(h)
    \/ \E t \in FramingTexts : ControllerAny(t)
    \/ \E n \in 1 .. MaxChunk : FramedDataEvent(n)

\* the data listener fed with a byte stream cut into chunks at any place
SpecFraming == Init /\ [][FramingNext]_vars

\* the Printer class against the virtual printer
SpecPrinter == Init /\ [][PrinterNext]_vars

\* the Printer class against a peer that prints anything
SpecPrinterAny == Init /\ [][PrinterAnyNext]_vars

\* the 'close' event of a port is left to SpecPrinterClose: #closeListener
\* changes nothing that the data listener reads
BatchNext ==
    \/ \E b \in BOOLEAN : setSerialPort(b)
    \/ \E h \in Ports : openCallback(h)
    \/ \E j \in Jobs : setJob(j)
    \/ CountedStartPrint
    \/ pausePrint
    \/ continuePrint
    \/ \E t \in StrayTexts : ControllerAny(t)
    \/ \E n \in 1 .. MaxChunk : CountedDataEvent(n)

\* the Printer class against a peer that prints anything, with the
\* acknowledgements and the commands of a print counted
SpecBatch == Init /\ [][BatchNext]_vars

PrinterCloseNext ==
    \/ PrinterNext
    \/ closeSerialPort

\* the Printer class with a connection that its holder may close
SpecPrinterClose == Init /\ [][PrinterCloseNext]_vars

-----------------------------------------------------------------------------
(* A Job in the hands of its owner: nextGcodeCommand and restart called in
   any order.  isComplete changes nothing and is the operator above *)

\* a nextGcodeCommand that starts over at the end of the script
nextGcodeCommand_Wraps(j) ==
    /\ Len(jobWritten[j]) < MaxReturned
    /\ LET at == IF isComplete(gcodeScriptIndex, j) THEN 0 ELSE gcodeScriptIndex[j]
       IN /\ gcodeScript(j) # <<>>
          /\ gcodeScriptIndex' = [gcodeScriptIndex EXCEPT ![j] = at + 1]
          /\ jobWritten' = [jobWritten EXCEPT ![j] = Append(@, gcodeScript(j)[at + 1])]
          /\ perr' = "none"
    /\ UNCHANGED <<obsVars, state, dataBuffer, currentJob, portVars, wire, rx, ctrlVars,
                   resumeCount>>
    /\ UNCHANGED <<qvars, feedVars, regVars>>

\* Job.nextGcodeCommand; jobWritten logs what it returned
nextGcodeCommand(j) ==
    /\ Len(jobWritten[j]) < MaxReturned
    /\ IF isComplete(gcodeScriptIndex, j)
       THEN /\ perr' = "Error"
            /\ UNCHANGED <<gcodeScriptIndex, jobWritten>>
       ELSE /\ gcodeScriptIndex' = [gcodeScriptIndex EXCEPT ![j] = @ + 1]
            /\ jobWritten' = [jobWritten EXCEPT ![j] =
                                 Append(@, gcodeScript(j)[gcodeScriptIndex[j] + 1])]
            /\ perr' = "none"
    /\ UNCHANGED <<obsVars, state, dataBuffer, currentJob, portVars, wire, rx, ctrlVars,
                   resumeCount>>
    /\ UNCHANGED <<qvars, feedVars, regVars>>

\* a restart that goes back by one command
restart_StepBack(j) ==
    /\ gcodeScriptIndex' = [gcodeScriptIndex EXCEPT ![j] = IF @ > 0 THEN @ - 1 ELSE 0]
    /\ perr' = "none"
    /\ UNCHANGED <<obsVars, state, dataBuffer, currentJob, jobWritten, portVars, wire, rx,
                   ctrlVars, resumeCount>>
    /\ UNCHANGED <<qvars, feedVars, regVars>>

\* Job.restart
restart(j) ==
    /\ gcodeScriptIndex' = [gcodeScriptIndex EXCEPT ![j] = 0]
    /\ perr' = "none"
    /\ UNCHANGED <<obsVars, state, dataBuffer, currentJob, jobWritten, portVars, wire, rx,
                   ctrlVars, resumeCount>>
    /\ UNCHANGED <<qvars, feedVars, regVars>>

JobNext ==
    \/ \E j \in Jobs : nextGcodeCommand(j)
    \/ \E j \in Jobs : restart(j)

SpecJob == Init /\ [][JobNext]_vars

\* the values printer.state takes: those of PrinterState, and 'Connecting',
\* which the other Printer classes use
PrinterStates ==
    {"NotConnected", "Connecting", CONNECTING, "Ready", "Printing", "Paused", "Error"}

\* more command texts: the empty text, a lone newline, a newline inside
TextInputs ==
    GCodeInputs \cup {<<>>, <<NL>>, <<NL, "m">>, <<"m", NL, "m">>}

\* a Printer object in any state handed to sendGCodeCommand, with no
\* communication loop running
SendInit ==
    /\ PInit
    /\ RInit
    /\ KInit
    /\ JInit
    /\ printerState \in PrinterStates
    /\ sendQueue = <<>>
    /\ extractorStack = <<>>
    /\ commands = <<>>
    /\ extractors = <<>>
    /\ outputBuffer = <<>>
    /\ previousCommand = 0
    /\ nextGCodeCommand = 0
    /\ listenerPc = "read"
    /\ registered = TRUE
    /\ written = <<>>
    /\ outstanding = <<>>
    /\ ackSeen = {}
    /\ ackArrived = {}
    /\ inputSeen = FALSE
    /\ qerr = "none"

SendNext ==
    \/ \E g \in TextInputs, t \in TimeoutInputs, imm \in BOOLEAN, auto \in BOOLEAN :
          sendGCodeCommand(g, t, imm, auto)
    \/ \E i \in CmdIds : CommandTimerFires(i)

\* sendGCodeCommand on a printer in any state
SpecSend == SendInit /\ [][SendNext]_vars

\* the queue-based engine against a peer that prints anything
SpecQueue == Init /\ [][QueueNext]_vars

\* the same with the timers of setTimeout, which fire once they are due
SpecQueueFair ==
    /\ SpecQueue
    /\ \A i \in CmdIds : WF_vars(CommandTimerFires(i))
    /\ \A i \in ExtIds : WF_vars(ExtractorTimerFires(i))

CloseNext ==
    \/ QueueNext
    \/ ConnectionCloses

\* the queue-based engine on a connection that may close
SpecClose == Init /\ [][CloseNext]_vars

\* the same with the timers of setTimeout, which fire once they are due
SpecCloseFair ==
    /\ SpecClose
    /\ \A i \in CmdIds : WF_vars(CommandTimerFires(i))
    /\ \A i \in ExtIds : WF_vars(ExtractorTimerFires(i))

-----------------------------------------------------------------------------
(* The communication loop against the virtual printer (createLoop), which
   answers every complete line it has received with an ok line, a line that
   starts with M118 and holds E1 with an echo line first.  rx is what it has
   printed and the loop has not read yet, ctrlIdx the lines it has answered *)

\* the ids of the commands written by the loop, in order; the text written
\* by sendHello (id 0) has no terminator and runs into the line after it
RECURSIVE LinesReceived(_)
LinesReceived(w) ==
    IF w = <<>> THEN <<>>
    ELSE IF Head(w) = 0 THEN LinesReceived(Tail(w))
         ELSE <<Head(w)>> \o LinesReceived(Tail(w))

\* one round of the for loop of createLoop
VirtualPrinterReply ==
    /\ ctrlIdx < Len(LinesReceived(written))
    /\ LET id == LinesReceived(written)[ctrlIdx + 1]
       IN rx' = rx \o (IF commands[id].command = Append(HELLO_CMD, NL)
                       THEN EchoText \o OkText ELSE OkText)
    /\ ctrlIdx' = ctrlIdx + 1
    /\ UNCHANGED <<state, dataBuffer, jobVars, portVars, wire, ctrlEchoed,
                   noiseCount, resumeCount, perr, feedVars, obsVars>>
    /\ UNCHANGED <<qvars, regVars>>

\* the virtual printer answers a line it was sent before this connection was
\* opened: its loop runs for as long as its port lives (at most once here)
VirtualPrinterEarlierLine ==
    /\ noiseCount = 0
    /\ noiseCount' = 1
    /\ rx' = rx \o OkText
    /\ UNCHANGED <<state, dataBuffer, jobVars, portVars, wire, ctrlIdx,
                   ctrlEchoed, resumeCount, perr, feedVars, obsVars>>
    /\ UNCHANGED <<qvars, regVars>>

\* the read of the loop resolves with the first n bytes the virtual printer
\* has printed
VirtualPrinterRead(n) ==
    /\ n \in 1 .. Len(rx)
    /\ serialPortListener_Pass(SubSeq(rx, 1, n))
    /\ rx' = SubSeq(rx, n + 1, Len(rx))
    /\ UNCHANGED <<state, dataBuffer, jobVars, portVars, wire, ctrlVars,
                   resumeCount, perr, feedVars, obsVars>>
    /\ UNCHANGED regVars

VirtualNext ==
    \/ BootDone
    \/ HelloSettled
    \/ \E t \in TimeoutInputs, imm \in BOOLEAN :
          sendGCodeCommand(<<"m">>, t, imm, TRUE)
    \/ \E i \in CmdIds : CommandTimerFires(i)
    \/ VirtualPrinterReply
    \/ VirtualPrinterEarlierLine
    \/ \E n \in 1 .. MaxChunk : VirtualPrinterRead(n)
    \/ serialPortListener_Written

SpecVirtual == Init /\ [][VirtualNext]_vars

\* the timers fire once they are due, the virtual printer's loop and the
\* communication loop run, and the connect sequence goes on
SpecVirtualFair ==
    /\ SpecVirtual
    /\ WF_vars(BootDone)
    /\ WF_vars(HelloSettled)
    /\ \A i \in CmdIds : WF_vars(CommandTimerFires(i))
    /\ WF_vars(VirtualPrinterReply)
    /\ WF_vars(\E n \in 1 .. MaxChunk : VirtualPrinterRead(n))
    /\ WF_vars(serialPortListener_Written)

-----------------------------------------------------------------------------
(* A print that nobody pauses and no disconnect ends *)

PrintNext ==
    \/ \E b \in BOOLEAN : setSerialPort(b)
    \/ \E h \in Ports : openCallback(h)
    \/ \E j \in Jobs : setJob(j)
    \/ startPrint
    \/ ControllerReply
    \/ \E n \in 1 .. MaxChunk : DataEvent(n)

SpecPrint == Init /\ [][PrintNext]_vars

\* the controller's loop answers a line it has received, and a 'data' event
\* is emitted for output that has arrived
SpecPrintFair ==
    /\ SpecPrint
    /\ WF_vars(ControllerReply)
    /\ WF_vars(\E n \in 1 .. MaxChunk : DataEvent(n))

-----------------------------------------------------------------------------
(* The Printer class with callbacks registered for its state changes *)

\* Object.values(PrinterState)
VALID_PRINTER_STATES ==
    {"NotConnected", "Ready", "Printing", "Connecting", "Paused", "Error"}

\* onStateChange(callback); the callbacks registered are distinct functions
onStateChange(c, isFunction) ==
    /\ UNCHANGED <<qvars, feedVars, regVars>>
    /\ IF ~isFunction
       THEN Throws("TypeError")
       ELSE /\ c \notin listeners
            /\ listeners' = listeners \cup {c}
            /\ perr' = "none"
            /\ UNCHANGED <<notified, state, dataBuffer, jobVars, portVars, wire,
                           rx, ctrlVars, resumeCount>>

ObservedNext ==
    \/ PrinterNext
    \/ \E c \in Callbacks, f \in BOOLEAN : onStateChange(c, f)

SpecObserved == Init /\ [][ObservedNext]_vars

-----------------------------------------------------------------------------
(* The communication loop with the controller's output cut at any place *)

\* what one read delivers: a whole ok line, and the line 'ok T' in two reads
ChunkTexts == {OkText, <<"o", "k">>, <<" ", "T", NL>>}

ChunkNext ==
    \/ BootDone
    \/ HelloSettled
    \/ \E t \in TimeoutInputs : sendGCodeCommand(<<"m">>, t, FALSE, TRUE)
    \/ \E i \in CmdIds : CommandTimerFires(i)
    \/ \E t \in ChunkTexts : serialPortListener_Read(t)
    \/ serialPortListener_Written

SpecChunks == Init /\ [][ChunkNext]_vars

-----------------------------------------------------------------------------
(* The Printer class of server-javascript/src/printer.js (the revision that
   starts at line 192).  Its setSerialPort, open callback and setJob are the
   ones above; its #closeListener and pausePrint only throw *)

\* `import { Job } from './job.js'`: next to printer.js that is a Job whose
\* method is spelt nextGCodeCommand, while the class calls nextGcodeCommand,
\* which is the method of the Job in printer/job.js
JobModules == {"job.js", "printer/job.js"}

\* whether cJob.nextGcodeCommand is a function
HasNextGcodeCommand == jobModule = "printer/job.js"

\* the for loop of lines 274-315: every ok line met in READY or PRINTING
\* sends a command; acc = [st, idx, out, threw]
RECURSIVE printerJs_LineLoop(_, _, _, _)
printerJs_LineLoop(lines, i, job, acc) ==
    IF i > Len(lines) - 1 \/ acc.threw THEN acc
    ELSE IF IsOk(lines[i]) /\ acc.st \in {"Ready", "Printing"} /\ job # 0
         THEN IF ~isComplete(acc.idx, job)
              THEN IF HasNextGcodeCommand
                   THEN printerJs_LineLoop(lines, i + 1, job,
                          [acc EXCEPT !.idx[job] = @ + 1,
                                      !.out = Append(@, gcodeScript(job)[acc.idx[job] + 1])])
                   ELSE [acc EXCEPT !.threw = TRUE]
              ELSE printerJs_LineLoop(lines, i + 1, job, [acc EXCEPT !.st = "Ready"])
         ELSE printerJs_LineLoop(lines, i + 1, job, acc)

\* #portListener (lines 256-326); a TypeError of line 288 leaves the
\* listener before the assignment of line 325
printerJs_portListener(dataFromPort) ==
    LET buf == dataBuffer \o dataFromPort
        outputLines == Split(buf)
        r == printerJs_LineLoop(outputLines, 1, currentJob,
                 [st |-> state, idx |-> gcodeScriptIndex, out |-> <<>>,
                  threw |-> FALSE])
    IN /\ state' = r.st
       /\ UNCHANGED obsVars
       /\ gcodeScriptIndex' = r.idx
       /\ wire' = wire \o r.out
       /\ jobWritten' = IF r.out = <<>> THEN jobWritten
                        ELSE [jobWritten EXCEPT ![currentJob] = @ \o r.out]
       /\ dataBuffer' = IF r.threw THEN buf ELSE outputLines[Len(outputLines)]

printerJs_DataEvent(n) ==
    /\ Connected
    /\ n \in 1 .. Len(rx)
    /\ printerJs_portListener(toString(SubSeq(rx, 1, n)))
    /\ rx' = SubSeq(rx, n + 1, Len(rx))
    /\ UNCHANGED <<currentJob, portVars, ctrlVars, resumeCount, perr>>
    /\ UNCHANGED <<qvars, feedVars, regVars>>

\* startPrint (lines 383-402): the command is taken and written before the
\* state is set
printerJs_startPrint ==
    /\ UNCHANGED <<qvars, feedVars, regVars>>
    /\ IF state = "Ready"
       THEN IF currentJob = 0
            THEN Throws("PrinterError")
            ELSE IF ~HasNextGcodeCommand
            THEN Throws("TypeError")
            ELSE IF isComplete(gcodeScriptIndex, currentJob)
            THEN Throws("Error")
            ELSE LET nextCommand ==
                       gcodeScript(currentJob)[gcodeScriptIndex[currentJob] + 1]
                 IN /\ gcodeScriptIndex' =
                          [gcodeScriptIndex EXCEPT ![currentJob] = @ + 1]
                    /\ wire' = Append(wire, nextCommand)
                    /\ jobWritten' = [jobWritten EXCEPT ![currentJob] =
                                        Append(@, nextCommand)]
                    /\ state' = "Printing"
                    /\ UNCHANGED obsVars
                    /\ perr' = "none"
                    /\ UNCHANGED <<dataBuffer, currentJob, portVars, rx, ctrlVars,
                                   resumeCount>>
       ELSE IF state = "Error"
       THEN /\ perr' = "none"
            /\ UNCHANGED <<obsVars, state, dataBuffer, jobVars, portVars, wire, rx,
                           ctrlVars, resumeCount>>
       ELSE Throws("PrinterError")

PrinterJsInit == PInit /\ QInit /\ RInit /\ KInit /\ jobModule \in JobModules

PrinterJsNext ==
    \/ \E b \in BOOLEAN : setSerialPort(b)
    \/ \E h \in Ports : openCallback(h)
    \/ \E h \in Ports : closeListener(h)
    \/ \E j \in Jobs : setJob(j)
    \/ printerJs_startPrint
    \/ \E t \in StrayTexts : ControllerAny(t)
    \/ \E n \in 1 .. MaxChunk : printerJs_DataEvent(n)

\* the Printer class of printer.js against a peer that prints anything
SpecPrinterJs == PrinterJsInit /\ [][PrinterJsNext]_vars

-----------------------------------------------------------------------------
(* Properties of the job-driven Printer *)

\* the complete lines of a text that are acknowledgements
CountOk(text) ==
    LET lines == Split(text)
    IN Cardinality({i \in 1 .. Len(lines) - 1 : IsOk(lines[i])})

HasOkLine(text) == CountOk(text) > 0

\* the lines written to the transport that the controller has not answered
Unacknowledged == Len(wire) - ctrlIdx

AnyDataEvent == \E n \in 1 .. MaxChunk : DataEvent(n)

\* C2: at most one line written to the transport (job command or resume
\* probe) is unacknowledged in every reachable state
C2_SingleInFlight == Unacknowledged <= 1

\* C3: a 'data' event received while Paused neither advances the cursor of
\* the job nor writes to the transport, whatever lines it carries
C3_PauseSuppression ==
    [][(state = "Paused" /\ AnyDataEvent)
         => (gcodeScriptIndex' = gcodeScriptIndex /\ wire' = wire)]_vars

\* C3 witness: paused in the middle of a job with two acknowledgement lines
\* received during the pause
C3_Witness ==
    /\ state = "Paused"
    /\ ~isComplete(gcodeScriptIndex, currentJob)
    /\ CountOk(dataBuffer) >= 2

\* C4: leaving Paused sets Printing and writes exactly the probe without
\* touching the cursor, and a job command is written after the start of the
\* job only by a 'data' event whose batch holds an acknowledgement line
C4_ResumeProbesOnce ==
    [][/\ (state = "Paused" /\ state' # "Paused")
            => /\ state' = "Printing"
               /\ wire' = Append(wire, SERIAL_PRINT_COMMAND)
               /\ gcodeScriptIndex' = gcodeScriptIndex
       /\ (/\ state # "Ready"
           /\ Len(wire') > Len(wire)
           /\ wire'[Len(wire')] # SERIAL_PRINT_COMMAND)
            => \E n \in 1 .. MaxChunk :
                  /\ DataEvent(n)
                  /\ HasOkLine(dataBuffer \o SubSeq(rx, 1, n))]_vars

\* C4 witness: the probe was written by a resume and a job command after it
C4_Witness ==
    \E i \in 1 .. Len(wire) - 1 :
        wire[i] = SERIAL_PRINT_COMMAND /\ wire[i + 1] # SERIAL_PRINT_COMMAND

\* C5: startPrint writes the first command and sets Printing; a batch with
\* one acknowledgement writes the next unsent command; an acknowledgement
\* processed when the cursor is at the end sets Ready; the commands of a job
\* written so far are its first cursor commands, in order, each once
C5_JobRunsInOrder ==
    [][/\ \A j \in Jobs :
            jobWritten'[j] = SubSeq(gcodeScript(j), 1, gcodeScriptIndex'[j])
       /\ (/\ state = "Ready" /\ startPrint /\ currentJob # 0
           /\ ~isComplete(gcodeScriptIndex, currentJob))
            => /\ state' = "Printing"
               /\ wire' = Append(wire, gcodeScript(currentJob)[1])
       /\ \A n \in 1 .. MaxChunk :
            (state = "Printing" /\ DataEvent(n)) =>
               LET batch == dataBuffer \o SubSeq(rx, 1, n) IN
               /\ (CountOk(batch) = 1 /\ ~isComplete(gcodeScriptIndex, currentJob))
                    => /\ wire' = Append(wire,
                             gcodeScript(currentJob)[gcodeScriptIndex[currentJob] + 1])
                       /\ state' = "Printing"
               /\ (CountOk(batch) >= 1 /\ isComplete(gcodeScriptIndex, currentJob))
                    => state' = "Ready"
       /\ (state = "Printing" /\ state' = "Ready")
            => gcodeScriptIndex'[currentJob] = Len(gcodeScript(currentJob))]_vars

\* C5 witness: the job ran to its end without a pause and the transport
\* carries exactly its commands
C5_Witness ==
    /\ state = "Ready"
    /\ currentJob = 1
    /\ resumeCount = 0
    /\ gcodeScriptIndex[1] = JobLen
    /\ wire = gcodeScript(1)

-----------------------------------------------------------------------------
(* Properties of the queue-based engine *)

InSeq(x, s) == \E k \in 1 .. Len(s) : s[k] = x

\* C1: at no time is more than one command written to the transport and not
\* yet acknowledged; one acknowledgement lets at most one queued command out
C1_SingleOutstanding == Len(outstanding) <= 1

\* C6: the terminal state of a SentGCodeCommand is final: a command that is
\* TimedOut stays TimedOut and its completion callback is not invoked by a
\* late acknowledgement; a command that is ReceivedResponse stays so and is
\* not rejected by its timer; no command returns to Sent
C6_TerminalIsFinal ==
    [][\A i \in 1 .. Len(commands) :
         /\ commands[i].state = "TimedOut" =>
               /\ commands'[i].state = "TimedOut"
               /\ commands'[i].completed = commands[i].completed
         /\ commands[i].state = "ReceivedResponse" =>
               /\ commands'[i].state = "ReceivedResponse"
               /\ commands'[i].rejected = commands[i].rejected
         /\ commands[i].state # "Sent" => commands'[i].state # "Sent"]_vars

\* a timed-out command went through a late acknowledgement and an
\* acknowledged command went through its timer
C6_Witness ==
    /\ \E i \in 1 .. Len(commands) :
          /\ commands[i].state = "TimedOut"
          /\ commands[i].late
          /\ commands[i].completed = 0
    /\ \E j \in 1 .. Len(commands) :
          /\ commands[j].state = "ReceivedResponse"
          /\ commands[j].timer = "fired"
          /\ commands[j].rejected = 0

\* extractor e exists and is Pending
ExtractorPending(e) ==
    IF e <= Len(extractors) THEN extractors[e].state = "Pending" ELSE FALSE

\* extractor e exists and one of its two callbacks has run
ExtractorResolved(e) ==
    IF e <= Len(extractors)
    THEN extractors[e].completed + extractors[e].rejected = 1
    ELSE FALSE

C8_AckResolves ==
    \A i \in ackSeen : commands[i].completed >= 1

\* command i exists, was given a timeout and nothing has been read so far
AwaitsInSilence(i) ==
    IF i <= Len(commands)
    THEN commands[i].timeoutAfter > 0 /\ ~inputSeen
    ELSE FALSE

\* command i is TimedOut and its handle was rejected once
RejectedByTimeout(i) ==
    IF i <= Len(commands)
    THEN commands[i].state = "TimedOut" /\ commands[i].rejected = 1
    ELSE FALSE

\* C9: with no controller input, a command with timeoutAfter > 0 ends up
\* TimedOut with its handle rejected, and no handle is rejected before its
\* timer fired
C9_TimesOutWithoutInput ==
    /\ \A i \in CmdIds :
          AwaitsInSilence(i) ~> (inputSeen \/ RejectedByTimeout(i))
    /\ [](\A i \in 1 .. Len(commands) :
            commands[i].rejected > 0 => commands[i].timer = "fired")

\* a command of a caller timed out and nothing was ever read
C9_Witness ==
    /\ ~inputSeen
    /\ \E i \in 2 .. Len(commands) :
          /\ commands[i].timeoutAfter > 0
          /\ commands[i].state = "TimedOut"
          /\ commands[i].rejected = 1

\* C10: a command that is TimedOut and has not been written is never written
C10_TimedOutNeverWritten ==
    [][\A i \in 1 .. Len(commands) :
         (commands[i].state = "TimedOut" /\ ~InSeq(i, written))
            => ~InSeq(i, written')]_vars

\* a timed-out command was taken off the queue unwritten and a later one
\* was written
C10_Witness ==
    \E i \in 1 .. Len(commands) :
        /\ commands[i].state = "TimedOut"
        /\ ~InSeq(i, written)
        /\ ~InSeq(i, sendQueue)
        /\ \E j \in (i + 1) .. Len(commands) : InSeq(j, written)

\* the place of x in s (0: absent)
Pos(x, s) == IF InSeq(x, s) THEN CHOOSE k \in 1 .. Len(s) : s[k] = x ELSE 0

\* the commands of queue that have not timed out, in order
RECURSIVE LiveOf(_, _)
LiveOf(queue, cmds) ==
    IF queue = <<>> THEN <<>>
    ELSE IF cmds[Head(queue)].state = "TimedOut"
         THEN LiveOf(Tail(queue), cmds)
         ELSE <<Head(queue)>> \o LiveOf(Tail(queue), cmds)

\* t is s without some of its first elements
IsSuffix(t, s) ==
    Len(t) <= Len(s) /\ t = SubSeq(s, Len(s) - Len(t) + 1, Len(s))

\* C11: commands enqueued without sendImmediately are written in the order of
\* their enqueue; a command enqueued with sendImmediately goes to the head of
\* sendQueue; every write takes the first command of sendQueue that has not
\* timed out and the queue is otherwise only shortened from its head
C11_QueueOrder ==
    /\ [](\A a, b \in 1 .. Len(commands) :
            (/\ a < b
             /\ ~commands[a].immediate /\ ~commands[b].immediate
             /\ InSeq(b, written))
               => (commands[a].state = "TimedOut" \/
                   (InSeq(a, written) /\ Pos(a, written) < Pos(b, written))))
    /\ [][/\ Len(commands') > Len(commands) =>
               LET id == Len(commands')
               IN IF commands'[id].immediate
                  THEN sendQueue' = <<id>> \o sendQueue
                  ELSE sendQueue' = Append(sendQueue, id)
          /\ Len(written') > Len(written) /\ Len(commands') = Len(commands) =>
               LET live == LiveOf(sendQueue, commands)
               IN /\ live # <<>>
                  /\ written' = Append(written, Head(live))
                  /\ IsSuffix(sendQueue', sendQueue)
                  /\ LiveOf(sendQueue', commands) = Tail(live)
          /\ (Len(written') = Len(written) /\ Len(commands') = Len(commands)) =>
               /\ IsSuffix(sendQueue', sendQueue)
               /\ sendQueue' # sendQueue => sendQueue' = <<>>]_vars

\* a command sent with sendImmediately was written before an older command
\* that was waiting in sendQueue
C11_Witness ==
    \E i, j \in 2 .. Len(commands) :
        /\ j < i
        /\ commands[i].immediate /\ ~commands[j].immediate
        /\ InSeq(i, written) /\ InSeq(j, written)
        /\ Pos(i, written) < Pos(j, written)

-----------------------------------------------------------------------------
(* Properties of sendGCodeCommand on a printer in any state *)

\* the command text has exactly its trailing newline, or none
OneLine(g) == \A i \in 1 .. Len(g) - 1 : g[i] # NL

\* C12: sendGCodeCommand accepts a one-line command exactly when the printer
\* is Printing, or Ready with autoChangeState; otherwise it throws the
\* CommError and the state is as before; a call that throws enqueues
\* nothing, arms no timer and leaves the state, and a command is only ever
\* enqueued on a printer that is Printing afterwards
C12_AcceptsOnlyWhenPrinting ==
    /\ [](\A g \in TextInputs, t \in TimeoutInputs, imm \in BOOLEAN, auto \in BOOLEAN :
            LET r == SendOutcome(g, printerState, t, imm, auto)
            IN OneLine(g) =>
                 /\ r.accepted <=> (\/ printerState = "Printing"
                                    \/ printerState = "Ready" /\ auto)
                 /\ r.accepted => r.state = "Printing" /\ r.err = "none"
                 /\ ~r.accepted => r.state = printerState /\ r.err = "CommError")
    /\ [][/\ (qerr' # "none" /\ qerr' # qerr) =>
                UNCHANGED <<printerState, commands, sendQueue>>
          /\ (Len(commands') > Len(commands) \/ printerState' # printerState) =>
                /\ printerState \in {"Printing", "Ready"}
                /\ printerState' = "Printing"
                /\ qerr' = "none"]_vars

\* a call on a Ready printer was refused and left it Ready with nothing queued
C12_Witness ==
    /\ printerState = "Ready"
    /\ qerr = "CommError"
    /\ commands = <<>>
    /\ sendQueue = <<>>

\* the text is empty or has a newline before its last character
Malformed(g) == g = <<>> \/ ~OneLine(g)

\* C13: every command text that is empty or has a line terminator anywhere
\* but at its end is rejected, with the printer state left as it was
C13_RejectsMalformed ==
    \A g \in TextInputs, t \in TimeoutInputs, imm \in BOOLEAN, auto \in BOOLEAN :
        LET r == SendOutcome(g, printerState, t, imm, auto)
        IN Malformed(g) => ~r.accepted /\ r.state = printerState

-----------------------------------------------------------------------------
(* Misuse of the Printer's state machine *)

\* the call threw and the Printer is as it was
Refused ==
    /\ perr' # "none"
    /\ UNCHANGED <<state, dataBuffer, jobVars, portVars, wire, rx, ctrlVars,
                   resumeCount>>

\* C14: startPrint in NotConnected, Connecting, Printing or Paused or in Ready
\* with no job, pausePrint outside Printing, continuePrint outside Paused and
\* setSerialPort in Printing or Paused throw, leave the state and write nothing
C14_MisuseRefused ==
    [][/\ (/\ startPrint
           /\ \/ state \in {"NotConnected", "Connecting", "Printing", "Paused"}
              \/ state = "Ready" /\ currentJob = 0) => Refused
       /\ (pausePrint /\ state # "Printing") => Refused
       /\ (continuePrint /\ state # "Paused") => Refused
       /\ ((\E b \in BOOLEAN : setSerialPort(b)) /\ state \in {"Printing", "Paused"})
             => Refused]_vars

\* a call was refused while a job is paused with a command on the transport
C14_Witness ==
    /\ state = "Paused"
    /\ perr = "PrinterError"
    /\ wire # <<>>

\* C15: a startPrint that throws leaves the state as it was and writes nothing
C15_FailedStartKeepsState ==
    [][(startPrint /\ perr' # "none") => (state' = state /\ wire' = wire)]_vars

-----------------------------------------------------------------------------
(* Properties of Job *)

\* C16: nextGcodeCommand on a job whose cursor is at the end of the script
\* throws and leaves the cursor; otherwise it returns the command at the
\* cursor and moves the cursor on by one
C16_NextCommandOrError ==
    [][\A j \in Jobs :
         nextGcodeCommand(j) =>
            IF gcodeScriptIndex[j] = Len(gcodeScript(j))
            THEN /\ perr' = "Error"
                 /\ gcodeScriptIndex'[j] = gcodeScriptIndex[j]
                 /\ jobWritten'[j] = jobWritten[j]
            ELSE /\ perr' = "none"
                 /\ gcodeScriptIndex'[j] = gcodeScriptIndex[j] + 1
                 /\ jobWritten'[j] =
                       Append(jobWritten[j], gcodeScript(j)[gcodeScriptIndex[j] + 1])]_vars

\* the whole script was handed out and the call after it threw
C16_Witness ==
    /\ perr = "Error"
    /\ gcodeScriptIndex[1] = JobLen
    /\ jobWritten[1] = gcodeScript(1)

\* C17: the cursor stays within 0 .. len(commands), isComplete is true
\* exactly at len(commands), and the cursor goes down only to 0
C17_CursorInRange ==
    /\ [](\A j \in Jobs :
            /\ gcodeScriptIndex[j] \in 0 .. Len(gcodeScript(j))
            /\ isComplete(gcodeScriptIndex, j) <=>
                  (gcodeScriptIndex[j] = Len(gcodeScript(j))))
    /\ [][\A j \in Jobs :
            gcodeScriptIndex'[j] < gcodeScriptIndex[j] => gcodeScriptIndex'[j] = 0]_vars

\* a job that ran to its end was restarted and handed out its first
\* command again
C17_Witness ==
    /\ Len(jobWritten[1]) = JobLen + 1
    /\ jobWritten[1][JobLen + 1] = gcodeScript(1)[1]
    /\ SubSeq(jobWritten[1], 1, JobLen) = gcodeScript(1)
    /\ gcodeScriptIndex[1] = 1

-----------------------------------------------------------------------------
(* Line framing of the Printer's data listener *)

\* C18: the lines the listener has gone over, followed by the tail it keeps,
\* are the lines of the whole byte stream decoded in one piece, however the
\* stream was cut into chunks
C18_FramingIndependent ==
    LET all == Split(toString(stream))
    IN /\ linesSeen = SubSeq(all, 1, Len(all) - 1)
       /\ dataBuffer = all[Len(all)]

-----------------------------------------------------------------------------
(* Evaluation of extractors *)

\* the output holds what the patterns of the extractors look for: every
\* extractor here is registered with a pattern that matches the text x
MatchesPattern(buf) == InSeq("x", buf)

\* the step is a pass of serialPortListener over a new read
ReadPass == listenerPc = "read" /\ Len(outputBuffer') > Len(outputBuffer)

\* C19: in a pass of a Printing printer over output that matches, a Pending
\* extractor with execRegexOnOk = false is resolved whether an ok line was
\* seen or not, and one with execRegexOnOk = true is resolved if an ok line
\* was seen and stays Pending otherwise
C19_EvaluationPolicy ==
    [][(ReadPass /\ printerState = "Printing" /\ MatchesPattern(outputBuffer')) =>
          \A e \in 1 .. Len(extractors) :
             (InSeq(e, extractorStack) /\ extractors[e].state = "Pending") =>
                IF ~extractors[e].execRegexOnOk \/ ResponseCompleted(outputBuffer')
                THEN extractors'[e].state = "FoundMatch"
                ELSE extractors'[e].state = "Pending" /\ InSeq(e, extractorStack')]_vars

-----------------------------------------------------------------------------
(* The map of connected printers *)

\* C20: for every path at most one Printer is constructed and at most one
\* handle is opened, and the calls that have returned for the path returned
\* the same Printer
C20_OnePrinterPerPath ==
    /\ \A p \in Paths : printersMade[p] <= 1 /\ handlesOpened[p] <= 1
    /\ \A c, d \in Callers :
          (/\ callPc[c] = "returned" /\ callPc[d] = "returned"
           /\ callPort[c] = callPort[d])
             => callPrinter[c] = callPrinter[d]

\* C21: once a getPrinterAtSerialPort call for a path has returned, a later
\* call for the same path returns at once with the Printer that call
\* returned: no Printer is constructed, nothing is opened and no
\* communication loop is created
C21_LaterCallsReuse ==
    [][\A c \in Callers, d \in Callers :
          (callPc[c] = "returned" /\ getPrinterAtSerialPort(d, callPort[c]))
             => /\ callPc'[d] = "returned"
                /\ callPrinter'[d] = callPrinter[c]
                /\ printersMade' = printersMade]_vars

-----------------------------------------------------------------------------
(* The list of known printers *)

\* no two entries of the list have the same path
NoDuplicatePaths(list) ==
    \A i \in 1 .. Len(list), k \in 1 .. Len(list) :
        list[i].path = list[k].path => i = k

\* C22: every getKnownPrinters call, with refresh true or false and over any
\* device lists, returns a list in which no path occurs twice, and of two
\* refreshing calls that settle one after the other over the same device
\* list the second returns what the first returned
C22_KnownSetStable ==
    /\ \A c \in Callers :
          knownPc[c] = "settled" =>
             /\ knownReturned[c].err = "none"
             /\ NoDuplicatePaths(knownReturned[c].value)
    /\ \A c \in Callers, d \in Callers :
          (/\ knownPc[c] = "settled" /\ knownPc[d] = "settled"
           /\ knownStamp[d] = knownStamp[c] + 1
           /\ knownPorts[c] # <<>> /\ knownPorts[c] = knownPorts[d])
             => /\ knownReturned[d].err = "none"
                /\ knownReturned[d] = knownReturned[c]

-----------------------------------------------------------------------------
(* The end of a connection *)

\* command i is pending and the connection has closed
CommandLeftPending(i) ==
    IF i <= Len(commands) THEN ~isOpen /\ commands[i].state = "Sent" ELSE FALSE

\* the handle of command i has been rejected
CommandRejected(i) ==
    IF i <= Len(commands) THEN commands[i].rejected > 0 ELSE FALSE

\* extractor i is pending and the connection has closed
ExtractorLeftPending(i) ==
    IF i <= Len(extractors) THEN ~isOpen /\ extractors[i].state = "Pending" ELSE FALSE

\* the handle of extractor i has been rejected
ExtractorRejected(i) ==
    IF i <= Len(extractors) THEN extractors[i].rejected > 0 ELSE FALSE

\* C23: a command handle or an extractor handle that is pending when the
\* connection closes is rejected; none of them stays pending for ever,
\* whatever its timeout is
C23_CloseRejectsPending ==
    /\ \A i \in CmdIds : CommandLeftPending(i) ~> CommandRejected(i)
    /\ \A i \in ExtIds : ExtractorLeftPending(i) ~> ExtractorRejected(i)

\* C24: once the connection has closed, a sendGCodeCommand or onOutputMatch
\* call finds the printer NotConnected and fails, and neither sendQueue nor
\* extractorStack takes anything in
C24_ClosedRefusesCalls ==
    [][(/\ ~isOpen
        /\ \/ \E g \in GCodeInputs, t \in TimeoutInputs, imm \in BOOLEAN,
                 auto \in BOOLEAN : sendGCodeCommand(g, t, imm, auto)
           \/ \E b \in BOOLEAN : onOutputMatch(b))
          => /\ printerState = "NotConnected"
             /\ qerr' # "none"
             /\ sendQueue' = sendQueue
             /\ extractorStack' = extractorStack]_vars

\* C25: when the close of a handle is reported, whatever the state is, the
\* Printer is NotConnected afterwards, its input buffer is empty and it holds
\* neither a handle nor a job
C25_CloseResets ==
    [][\A h \in Ports :
          closeListener(h) =>
             /\ state' = "NotConnected"
             /\ dataBuffer' = <<>>
             /\ serialPort' = 0
             /\ currentJob' = 0]_vars

\* C26 as claimed: a 'data' event received while Paused leaves the input
\* buffer as it was, the input is dropped
C26_PausedInputDiscarded ==
    [][(state = "Paused" /\ AnyDataEvent) => dataBuffer' = dataBuffer]_vars

\* C26 as amended: a 'data' event received while Paused appends the decoded
\* input to the input buffer and does nothing else: no line is looked at, the
\* state, the job and its cursor stay and nothing is written
C26_PausedInputRetained ==
    [][\A n \in 1 .. MaxChunk :
          (state = "Paused" /\ DataEvent(n))
             => /\ dataBuffer' = dataBuffer \o toString(SubSeq(rx, 1, n))
                /\ state' = "Paused"
                /\ currentJob' = currentJob
                /\ gcodeScriptIndex' = gcodeScriptIndex
                /\ wire' = wire]_vars

\* C26 witness: an acknowledgement line received during the pause is in the
\* input buffer of the paused Printer
C26_Witness ==
    /\ state = "Paused"
    /\ CountOk(dataBuffer) = 1
    /\ Len(wire) >= 1

-----------------------------------------------------------------------------
(* The handshake *)

\* C27: when the hello command has timed out, the end of the handshake
\* still registers the printer and hands it to the caller, and leaves its
\* state as it was, which is not Error
C27_HelloTimeoutStillConnects ==
    [][(HelloSettled /\ commands[1].state = "TimedOut")
         => /\ registered'
            /\ printerState' = printerState
            /\ printerState' # "Error"]_vars

\* C27 witness: a registered printer whose hello command was rejected by its
\* timer
C27_Witness ==
    /\ registered
    /\ Len(commands) >= 1
    /\ commands[1].state = "TimedOut"
    /\ commands[1].rejected = 1
    /\ printerState = "Printing"

-----------------------------------------------------------------------------
(* The job of a Printer that prints *)

\* C28: setJob called on a Printing or Paused Printer throws and leaves the
\* job, the cursors and the state, and no step of any kind changes the job
\* of a Printing or Paused Printer
C28_BusyJobKept ==
    [][/\ \A j \in Jobs :
             (setJob(j) /\ state \in {"Printing", "Paused"})
                => /\ perr' = "PrinterError"
                   /\ currentJob' = currentJob
                   /\ gcodeScriptIndex' = gcodeScriptIndex
                   /\ state' = state
       /\ state \in {"Printing", "Paused"} => currentJob' = currentJob]_vars

\* C28 witness: a call was refused on a Printer that prints a job it has
\* begun, with another job at hand
C28_Witness ==
    /\ state = "Printing"
    /\ perr = "PrinterError"
    /\ currentJob # 0
    /\ gcodeScriptIndex[currentJob] >= 1
    /\ \E j \in Jobs : j # currentJob

-----------------------------------------------------------------------------
(* One batch of input *)

AnyCountedDataEvent == \E n \in 1 .. MaxChunk : CountedDataEvent(n)

\* C29: one 'data' event writes at most one line to the transport and moves
\* the cursor of at most one job, by at most one, however many ok lines its
\* batch holds (a 'data' event takes bytes from rx)
C29_OneDispatchPerBatch ==
    [][(Len(rx') < Len(rx) /\ AnyCountedDataEvent)
         => /\ Len(wire') <= Len(wire) + 1
            /\ \A j \in Jobs : gcodeScriptIndex'[j] <= gcodeScriptIndex[j] + 1
            /\ \A j \in Jobs :
                  gcodeScriptIndex'[j] # gcodeScriptIndex[j] => j = currentJob]_vars

\* C29 witness: the last batch held two ok lines or more for the printing
\* Printer and wrote one command
C29_Witness ==
    /\ batchAcks >= 2
    /\ batchWrites = 1

-----------------------------------------------------------------------------
(* The Printer class of server-javascript/src/printer.js *)

printerJs_AnyDataEvent == \E n \in 1 .. MaxChunk : printerJs_DataEvent(n)

-----------------------------------------------------------------------------
(* What counts as an acknowledgement *)

\* C32: a read that delivers complete lines none of which is the line 'ok'
\* advances nothing: no command is written or taken from the queue and no
\* command changes
C32_OnlyOkAdvances ==
    [][(\E t \in ReadTexts : ~HasOkLine(t) /\ serialPortListener_Read(t))
       => /\ written' = written
          /\ sendQueue' = sendQueue
          /\ commands' = commands]_vars

\* C33: a read of the communication loop writes a command or settles one
\* only if the output accumulated so far holds a terminated 'ok' line
C33_AckNeedsTerminator ==
    [][((\E t \in ChunkTexts : serialPortListener_Read(t))
        /\ (written' # written \/ commands' # commands))
       => HasOkLine(outputBuffer')]_vars

-----------------------------------------------------------------------------
(* The extractor set *)

\* C34: a Pending extractor is always in the extractor set, and after an
\* evaluation pass the set holds Pending extractors only (matched and
\* timed-out ones have been taken out)
C34_ExtractorSetExact ==
    /\ [](\A e \in 1 .. Len(extractors) :
            extractors[e].state = "Pending" => InSeq(e, extractorStack))
    /\ [][(ReadPass /\ printerState = "Printing")
          => \A e \in 1 .. Len(extractors') :
                InSeq(e, extractorStack') => extractors'[e].state = "Pending"]_vars

-----------------------------------------------------------------------------
(* The callbacks of onStateChange *)

\* C35: the state is always one of the six PrinterState values, and every
\* step that changes it calls each callback registered before the step
\* exactly once more, with the new state, after the calls made so far
C35_StateChangeNotified ==
    /\ [](state \in VALID_PRINTER_STATES)
    /\ [][\A c \in Callbacks :
            (c \in listeners /\ state' # state)
               => notified'[c] = Append(notified[c], state')]_vars

\* C35 witness: a callback has followed the printer through three changes
\* or more and the last state it was given is the current one
C35_Witness ==
    \E c \in listeners :
        /\ Len(notified[c]) >= 3
        /\ notified[c][Len(notified[c])] = state
        /\ state = "Paused"

-----------------------------------------------------------------------------
(* The handle and the state *)

-----------------------------------------------------------------------------
(* The end of a print *)

\* C37: a print that startPrint has begun (the Printer is Printing and a
\* command it wrote is not answered yet) leads to the state Ready with the
\* cursor of the job at the end of its script
C37_PrintCompletes ==
    (state = "Printing" /\ Unacknowledged > 0)
       ~> (/\ state = "Ready"
           /\ currentJob # 0
           /\ gcodeScriptIndex[currentJob] = Len(gcodeScript(currentJob)))

\* C37 witness: the job of JobLen commands has been printed to its end and
\* the controller has answered every command
C37_Witness ==
    /\ state = "Ready"
    /\ currentJob = 1
    /\ gcodeScriptIndex[1] = JobLen
    /\ Len(wire) = JobLen
    /\ ctrlIdx = JobLen
    /\ rx = <<>>

-----------------------------------------------------------------------------
(* Progress of the queue *)

\* command i has been written by the loop or has timed out
WrittenOrTimedOut(i) ==
    IF i <= Len(commands)
    THEN InSeq(i, written) \/ commands[i].state = "TimedOut"
    ELSE FALSE

\* C38: every command sendGCodeCommand has accepted, the hello command
\* included, is written to the transport or times out in the end
C38_QueueProgress ==
    \A i \in CmdIds : (i <= Len(commands)) ~> WrittenOrTimedOut(i)

\* C39: an ok line is consumed once: the completion callback of a command is
\* invoked at most once, and a pass that has invoked it leaves no ok line in
\* the buffer for the next read unless a write that clears the buffer is
\* under way
C39_AckConsumedOnce ==
    /\ [](\A i \in 1 .. Len(commands) : commands[i].completed <= 1)
    /\ [][\A i \in 1 .. Len(commands) :
            commands'[i].completed > commands[i].completed =>
               \/ listenerPc' = "write"
               \/ ~HasOkLine(outputBuffer')]_vars

\* C40: when the connect sequence ends, the hello command answered or timed
\* out, the printer that is registered and returned is Ready, not Printing
C40_ReadyAfterConnect ==
    [][HelloSettled => printerState' = "Ready"]_vars

=============================================================================
